---- MODULE Spec2Model ----
(***************************************************************************)
(* Event-processing core of the e-commerce event processor:                *)
(*   - RetryMechanism.executeWithRetry with its dead-letter escalation     *)
(*     (shared/infrastructure/retry)                                       *)
(*   - BatchProcessor: size / timer / shutdown flushes                     *)
(*     (shared/infrastructure/batch)                                       *)
(*   - EventProcessingSubject: observer fan-out                            *)
(*     (shared/infrastructure/event-processing)                            *)
(*   - the path of a broker message: consume callback, retry-wrapped       *)
(*     CompositeMessageHandler, batch processor and observers              *)
(* Each component has its own specification (SpecRetry, SpecBatch,         *)
(* SpecNotify); the variables of the other components stay at their        *)
(* initial value.  SpecPipeline runs the message path over the batch       *)
(* processor and the observer fan-out, SpecPipelineShutdown the same with  *)
(* the batch processor being shut down.  SpecRetryLive is SpecRetry with   *)
(* fairness.  SpecConvert (conversion of the raw message), SpecValidate    *)
(* (validation of OrderCreated) and SpecOrder (the Order entity) check     *)
(* these parts on their own.  SpecService is the batch processor as the    *)
(* running service uses it, with the periodic BatchFlush task, and         *)
(* SpecServiceLive adds its scheduling; SpecStop is stop() of the service  *)
(* over the batch processor; SpecPerType is the BatchProcessor variant     *)
(* that keeps one batch per event type.                                    *)
(***************************************************************************)
EXTENDS Integers, Sequences, FiniteSets, TLC

\* ------------------------------------------------------------------------
\* Bounds of the model
\* ------------------------------------------------------------------------
MaxAttemptsBound == 5
MaxBackoffFactor == 3
MaxCalls == 2
MaxBatchSize == 3
MaxEvents == 3
MaxNotifications == 2
MaxMsgs == 1
MaxOrderCalls == 5
MaxStrategyBatches == 3

\* config.batchIntervalMs, in ticks of the model's clock
BatchIntervalTicks == 2

\* configurations the retry engine is constructed with
InitialDelays == {100, 1000, 40000}
MaxDelays == {1000, 30000}
\* messages of the errors an operation may throw
OpErrors == {"boom", "bang"}
NoError == "none"

\* ------------------------------------------------------------------------
\* State
\* ------------------------------------------------------------------------
VARIABLES
  \* RetryMechanism
  config,       \* RetryConfig: maxAttempts, initialDelayMs, maxDelayMs, backoffFactor
  hasDlq,       \* a dlqService was passed to the constructor
  hasEvent,     \* the current call passed an event
  rpc,          \* position of the current executeWithRetry call
  attempt,      \* loop variable
  delay,        \* local variable delay
  lastError,    \* local variable lastError (its message)
  opCalls,      \* invocations of operation() by the current call
  opErrs,       \* messages of the failures of the current call, in order
  waits,        \* delays waited by the current call, in order
  dlqLog,       \* sendToDeadLetterQueue calls of the current call
  outcome,      \* what the caller got: [kind, error]
  callsMade,    \* executeWithRetry calls started so far
  \* RabbitMQDeadLetterQueueService
  channel,      \* "null" or "open"
  \* BatchProcessor
  batchSize,        \* config.batchSize
  eventBatch,       \* this.eventBatch
  timerPending,     \* a setTimeout callback of batchTimer is scheduled
  timerLeft,        \* ticks until it fires
  isShuttingDown,
  batchCount,
  processedCount,
  successCount,
  errorCount,
  flushes,          \* one record per processBatch that took a batch
  strategyLog,      \* events strategy.process was invoked with, in order
  accepted,         \* events pushed to eventBatch, in order
  rejected,         \* events addEvent turned away
  batchAge,         \* ticks since the first event of eventBatch was pushed
  shutdownState,    \* "no", "running", "done"
  \* EventProcessingSubject
  observers,        \* this.observers, in registration order
  notifs,           \* one record per notifyObservers call
  \* RabbitMQClient.consume callback and the handlers it runs
  msgs,             \* one record per delivered message
  \* RetryableMessageHandler.handle for one raw message
  message,          \* the raw message; a field is <<>> (absent) or <<value>>
  domainEvent,      \* <<>> or <<the event convertToDomainEvent returned>>
  handed,           \* the events baseHandler.handle was called with, in order
  dlqContext,       \* the events handed to the dead-letter call
  hpc,              \* position of handle
  \* validation of one OrderCreated payload
  payload,          \* event.data: customerId, total, items
  handlerVerdict,   \* what validateEventData did with it
  strategyVerdict,  \* what the validation of handleOrderCreated did with it
  \* Order
  orderStatus,      \* this._status
  orderEvents,      \* this._events: the class of each recorded event, in order
  orderCall,        \* the last call on the order: its number, method and error
  \* BatchProcessor, the variant with one batch per event type
  eventBatches,     \* this.eventBatches: the batch of each type (ids of events)
  batchKeys,        \* the keys of eventBatches, in insertion order
  batchTimers,      \* the keys of this.batchTimers
  timersPending,    \* the types whose timeout has not fired yet
  isProcessing,     \* this.isProcessing
  strategyBatches,  \* the batches handed to strategy.processBatch, in order
  submitted,        \* events addEvent was called with so far
  \* EventProcessingService.stop and RabbitMQClient.disconnect
  stopPc,           \* where the stop() call is
  brokerChannel,    \* this.channel of the client: none, open, closed
  brokerConnection, \* this.connection of the client: none, open, closed
  stopError         \* the error stop() rejected with

rvars == <<config, hasDlq, hasEvent, rpc, attempt, delay, lastError, opCalls,
           opErrs, waits, dlqLog, outcome, callsMade, channel>>

bvars == <<batchSize, eventBatch, timerPending, timerLeft, isShuttingDown,
           batchCount, processedCount, successCount, errorCount, flushes,
           strategyLog, accepted, rejected, batchAge, shutdownState>>

nvars == <<observers, notifs>>

pvars == <<msgs>>

cvars == <<message, domainEvent, handed, dlqContext, hpc>>

\* the components that are checked on their own, apart from the four above
vvars == <<payload, handlerVerdict, strategyVerdict>>

ovars == <<orderStatus, orderEvents, orderCall>>

tvars == <<eventBatches, batchKeys, batchTimers, timersPending, isProcessing,
           strategyBatches, submitted>>

svars == <<stopPc, brokerChannel, brokerConnection, stopError>>

xvars == <<cvars, vvars, ovars, tvars, svars>>

vars == <<rvars, bvars, nvars, pvars, xvars>>

\* what the actions of one component leave alone
notRetry == <<bvars, nvars, pvars, xvars>>
notBatch == <<rvars, nvars, pvars, xvars>>
notNotify == <<rvars, bvars, pvars, xvars>>
notPipeline == <<rvars, bvars, nvars, xvars>>
notConvert == <<rvars, bvars, nvars, pvars, vvars, ovars, tvars, svars>>
notValidate == <<rvars, bvars, nvars, pvars, cvars, ovars, tvars, svars>>
notOrder == <<rvars, bvars, nvars, pvars, cvars, vvars, tvars, svars>>
notPerType == <<rvars, bvars, nvars, pvars, cvars, vvars, ovars, svars>>
notStop == <<rvars, bvars, nvars, pvars, cvars, vvars, ovars, tvars>>

\* ------------------------------------------------------------------------
\* Helpers
\* ------------------------------------------------------------------------
Min(a, b) == IF a <= b THEN a ELSE b

RECURSIVE Pow(_, _)
Pow(b, e) == IF e = 0 THEN 1 ELSE b * Pow(b, e - 1)

\* ------------------------------------------------------------------------
\* RetryMechanism
\* ------------------------------------------------------------------------
NoOutcome == [kind |-> "pending", error |-> NoError]

NextDelay_uncapped(d) == d * config.backoffFactor

\* delay = Math.min(delay * backoffFactor, maxDelayMs)
NextDelay(d) == Min(d * config.backoffFactor, config.maxDelayMs)

AttemptsExhausted_early(a) == a + 1 >= config.maxAttempts

\* `if (attempt === this.config.maxAttempts)`
AttemptsExhausted(a) == a = config.maxAttempts

RaisedAfterExhaustion_masked(opError, dlqError) ==
  IF dlqError # NoError THEN dlqError ELSE opError

\* the error raised to the caller once the retries are exhausted:
\* `throw lastError` after the try/catch around the dead-letter call
RaisedAfterExhaustion(opError, dlqError) == opError

RetryInit ==
  /\ config \in [maxAttempts: 1..MaxAttemptsBound,
                 initialDelayMs: InitialDelays,
                 maxDelayMs: MaxDelays,
                 backoffFactor: 1..MaxBackoffFactor]
  /\ hasDlq \in BOOLEAN
  /\ hasEvent = FALSE
  /\ rpc = "idle"
  /\ attempt = 0
  /\ delay = 0
  /\ lastError = NoError
  /\ opCalls = 0
  /\ opErrs = <<>>
  /\ waits = <<>>
  /\ dlqLog = <<>>
  /\ outcome = NoOutcome
  /\ callsMade = 0
  /\ channel = "null"

\* executeWithRetry(operation, context, event?) is called
executeWithRetry(ev) ==
  /\ rpc \in {"idle", "returned", "thrown"}
  /\ callsMade < MaxCalls
  /\ callsMade' = callsMade + 1
  /\ hasEvent' = ev
  /\ lastError' = NoError
  /\ delay' = config.initialDelayMs
  /\ attempt' = 1
  /\ opCalls' = 0
  /\ opErrs' = <<>>
  /\ waits' = <<>>
  /\ dlqLog' = <<>>
  /\ outcome' = NoOutcome
  /\ rpc' = "attempting"
  /\ UNCHANGED <<config, hasDlq, channel>>
  /\ UNCHANGED notRetry

operationInvoke_duringWait ==
  /\ rpc \in {"attempting", "waiting"}
  /\ attempt <= config.maxAttempts
  /\ opCalls' = opCalls + 1
  /\ rpc' = "running"
  /\ UNCHANGED <<config, hasDlq, hasEvent, attempt, delay, lastError, opErrs,
                 waits, dlqLog, outcome, callsMade, channel>>
  /\ UNCHANGED notRetry

\* the loop test and `operation()` being invoked
operationInvoke ==
  /\ rpc = "attempting"
  /\ attempt <= config.maxAttempts
  /\ opCalls' = opCalls + 1
  /\ rpc' = "running"
  /\ UNCHANGED <<config, hasDlq, hasEvent, attempt, delay, lastError, opErrs,
                 waits, dlqLog, outcome, callsMade, channel>>
  /\ UNCHANGED notRetry

operationSucceeds_noReturn ==
  /\ rpc = "running"
  /\ IF AttemptsExhausted(attempt)
       THEN /\ outcome' = [kind |-> "returned", error |-> NoError]
            /\ rpc' = "returned"
            /\ attempt' = attempt
       ELSE /\ outcome' = outcome
            /\ rpc' = "attempting"
            /\ attempt' = attempt + 1
  /\ UNCHANGED <<config, hasDlq, hasEvent, delay, lastError, opCalls,
                 opErrs, waits, dlqLog, callsMade, channel>>
  /\ UNCHANGED notRetry

\* `return await operation()` with a resolved promise
operationSucceeds ==
  /\ rpc = "running"
  /\ outcome' = [kind |-> "returned", error |-> NoError]
  /\ rpc' = "returned"
  /\ UNCHANGED <<config, hasDlq, hasEvent, attempt, delay, lastError, opCalls,
                 opErrs, waits, dlqLog, callsMade, channel>>
  /\ UNCHANGED notRetry

\* the catch block, up to the dead-letter call or the wait
operationFails(msg) ==
  /\ rpc = "running"
  /\ lastError' = msg
  /\ opErrs' = Append(opErrs, msg)
  /\ IF AttemptsExhausted(attempt)
       THEN IF hasEvent /\ hasDlq
              THEN /\ rpc' = "deadLetter"
                   /\ outcome' = outcome
              ELSE /\ rpc' = "thrown"
                   /\ outcome' = [kind |-> "thrown",
                                  error |-> RaisedAfterExhaustion(msg, NoError)]
       ELSE /\ rpc' = "waiting"
            /\ outcome' = outcome
  /\ UNCHANGED <<config, hasDlq, hasEvent, attempt, delay, opCalls, waits,
                 dlqLog, callsMade, channel>>
  /\ UNCHANGED notRetry

\* `await this.delay(delay)`, the recalculation of delay, attempt++
delayElapsed ==
  /\ rpc = "waiting"
  /\ waits' = Append(waits, delay)
  /\ delay' = NextDelay(delay)
  /\ attempt' = attempt + 1
  /\ rpc' = "attempting"
  /\ UNCHANGED <<config, hasDlq, hasEvent, lastError, opCalls, opErrs, dlqLog,
                 outcome, callsMade, channel>>
  /\ UNCHANGED notRetry

\* ------------------------------------------------------------------------
\* RabbitMQDeadLetterQueueService
\* ------------------------------------------------------------------------
\* what initialize() may do when the channel is still null
InitResults == {"connectFails", "setupFails", "initialized"}
\* what channel.publish may do
PublishResults == {"published", "bufferFull", "publishThrows"}

\* the channel after sendToDeadLetterQueue ran initialize() with result i
ChannelAfter(ch, i) ==
  IF ch = "open" THEN "open"
  ELSE IF i = "connectFails" THEN "null" ELSE "open"

\* the error sendToDeadLetterQueue rejects with (NoError when it resolves)
DlqError(ch, i, p) ==
  IF ch = "null" /\ i = "connectFails" THEN "dlq: connect failed"
  ELSE IF ch = "null" /\ i = "setupFails" THEN "dlq: setup failed"
  ELSE IF p = "bufferFull" THEN "Failed to publish message to DLQ - channel buffer full"
  ELSE IF p = "publishThrows" THEN "dlq: publish failed"
  ELSE NoError

\* sendToDeadLetterQueue(event, lastError, attempt) inside the try/catch of
\* executeWithRetry, followed by `throw lastError`
sendToDeadLetterQueue(i, p) ==
  /\ rpc = "deadLetter"
  /\ channel' = ChannelAfter(channel, i)
  /\ dlqLog' = Append(dlqLog, [retryCount |-> attempt,
                               errorMessage |-> lastError,
                               dlqError |-> DlqError(channel, i, p)])
  /\ outcome' = [kind |-> "thrown",
                 error |-> RaisedAfterExhaustion(lastError, DlqError(channel, i, p))]
  /\ rpc' = "thrown"
  /\ UNCHANGED <<config, hasDlq, hasEvent, attempt, delay, lastError, opCalls,
                 opErrs, waits, callsMade>>
  /\ UNCHANGED notRetry

\* ------------------------------------------------------------------------
\* BatchProcessor
\* ------------------------------------------------------------------------
\* event types with a registered strategy (the service registers the
\* BatchFlush strategy in its constructor), and all types that arrive
Registered == {"OrderCreated", "BatchFlush"}
EventTypes == {"OrderCreated", "Mystery"}

\* ticks a saturating age counter distinguishes
MaxAge == BatchIntervalTicks + 1

InFlight == {f \in 1..Len(flushes) : ~flushes[f].done}

\* the events of a batch whose type has a strategy, in batch order
WithStrategy(batch) == SelectSeq(batch, LAMBDA e : e.type \in Registered)

Started_all(batch) == 1..Len(batch)

\* positions of a batch whose strategy.process call is started
Started(batch) == {i \in 1..Len(batch) : batch[i].type \in Registered}

SizeLimitReached_late(len) == len > batchSize

\* `if (this.eventBatch.length >= this.config.batchSize)` in addEvent
SizeLimitReached(len) == len >= batchSize

BatchInit ==
  /\ batchSize \in 1..MaxBatchSize
  /\ eventBatch = <<>>
  /\ timerPending = TRUE            \* the constructor calls startBatchTimer
  /\ timerLeft = BatchIntervalTicks
  /\ isShuttingDown = FALSE
  /\ batchCount = 0
  /\ processedCount = 0
  /\ successCount = 0
  /\ errorCount = 0
  /\ flushes = <<>>
  /\ strategyLog = <<>>
  /\ accepted = <<>>
  /\ rejected = 0
  /\ batchAge = 0
  /\ shutdownState = "no"

processBatch_noSwap(cause, batch) ==
  /\ eventBatch' = batch
  /\ batchCount' = batchCount + 1
  /\ flushes' = Append(flushes, [cause |-> cause,
                                 events |-> batch,
                                 pending |-> Started(batch),
                                 done |-> FALSE,
                                 thrown |-> FALSE,
                                 age |-> IF cause = "timer" THEN batchAge ELSE 0])
  /\ errorCount' = errorCount + (Len(batch) - Cardinality(Started(batch)))
  /\ strategyLog' = strategyLog \o WithStrategy(batch)
  /\ batchAge' = 0

\* processBatch() up to `await Promise.all(processingPromises)`: the buffer
\* is swapped, and the map callbacks run up to their first await, so every
\* strategy.process call is started, in batch order
\* (age: for a timer-triggered flush, the age of the batch it takes)
processBatch(cause, batch) ==
  /\ eventBatch' = <<>>
  /\ batchCount' = batchCount + 1
  /\ flushes' = Append(flushes, [cause |-> cause,
                                 events |-> batch,
                                 pending |-> Started(batch),
                                 done |-> FALSE,
                                 thrown |-> FALSE,
                                 age |-> IF cause = "timer" THEN batchAge ELSE 0])
  /\ errorCount' = errorCount + (Len(batch) - Cardinality(Started(batch)))
  /\ strategyLog' = strategyLog \o WithStrategy(batch)
  /\ batchAge' = 0

RejectsEvent_never == FALSE

\* `if (this.isShuttingDown) { warn; return; }` at the top of addEvent
RejectsEvent == isShuttingDown

\* addEvent(event): the whole synchronous part
addEventCall(t) ==
  /\ Len(accepted) + rejected < MaxEvents
  /\ LET e == [id |-> Len(accepted) + rejected + 1, type |-> t] IN
     IF RejectsEvent
       THEN /\ rejected' = rejected + 1
            /\ UNCHANGED <<eventBatch, batchCount, flushes, errorCount,
                           strategyLog, accepted, batchAge>>
       ELSE /\ accepted' = Append(accepted, e)
            /\ rejected' = rejected
            /\ IF SizeLimitReached(Len(eventBatch) + 1)
                 THEN processBatch("size", Append(eventBatch, e))
                 ELSE /\ eventBatch' = Append(eventBatch, e)
                      /\ batchAge' = IF eventBatch = <<>> THEN 0 ELSE batchAge
                      /\ UNCHANGED <<batchCount, flushes, errorCount, strategyLog>>
  /\ UNCHANGED <<batchSize, timerPending, timerLeft, isShuttingDown,
                 processedCount, successCount, shutdownState>>

\* a call of addEvent from outside the message path
addEvent(t) ==
  /\ addEventCall(t)
  /\ UNCHANGED notBatch

\* the setInterval callback of setupPeriodicTasks: addEvent with a
\* BatchFlush event, inside a try/catch
periodicTask ==
  /\ addEventCall("BatchFlush")
  /\ UNCHANGED notBatch

CallbackRejects_rethrow(ok) == ~ok

\* whether the promise of a map callback of processBatch rejects: the whole
\* callback body is inside try/catch and the catch does not rethrow
CallbackRejects(ok) == FALSE

strategySettles_abortsBatch(f, i, ok) ==
  /\ f \in InFlight
  /\ i \in flushes[f].pending
  /\ flushes' = [flushes EXCEPT ![f].pending = IF ok THEN @ \ {i} ELSE {},
                                ![f].thrown = @ \/ CallbackRejects(ok)]
  /\ IF ok
       THEN /\ successCount' = successCount + 1
            /\ processedCount' = processedCount + 1
            /\ errorCount' = errorCount
       ELSE /\ errorCount' = errorCount + 1
            /\ UNCHANGED <<successCount, processedCount>>
  /\ UNCHANGED <<batchSize, eventBatch, timerPending, timerLeft, isShuttingDown,
                 batchCount, strategyLog, accepted, rejected, batchAge,
                 shutdownState>>
  /\ UNCHANGED notBatch

\* one strategy.process(event) promise settles: the rest of the map
\* callback; Promise.all rejects when a callback's promise rejects
strategySettles(f, i, ok) ==
  /\ f \in InFlight
  /\ i \in flushes[f].pending
  /\ flushes' = [flushes EXCEPT ![f].pending = @ \ {i},
                                ![f].thrown = @ \/ CallbackRejects(ok)]
  /\ IF ok
       THEN /\ successCount' = successCount + 1
            /\ processedCount' = processedCount + 1
            /\ errorCount' = errorCount
       ELSE /\ errorCount' = errorCount + 1
            /\ UNCHANGED <<successCount, processedCount>>
  /\ UNCHANGED <<batchSize, eventBatch, timerPending, timerLeft, isShuttingDown,
                 batchCount, strategyLog, accepted, rejected, batchAge,
                 shutdownState>>
  /\ UNCHANGED notBatch

TimerArmedByStart_never == FALSE

\* startBatchTimer(): the pending timer is cleared and, unless shutting
\* down, a new one is set
TimerArmedByStart == ~isShuttingDown

\* processBatch() after Promise.all settled: when it resolved the timer is
\* restarted; the caller (addEvent, the timer callback or shutdown)
\* continues, with the error of Promise.all when it rejected
processBatchCompletes(f) ==
  /\ f \in InFlight
  /\ flushes[f].pending = {}
  /\ flushes' = [flushes EXCEPT ![f].done = TRUE]
  /\ timerPending' = IF flushes[f].thrown THEN timerPending ELSE TimerArmedByStart
  /\ timerLeft' = IF ~flushes[f].thrown /\ TimerArmedByStart
                    THEN BatchIntervalTicks ELSE timerLeft
  /\ shutdownState' = IF flushes[f].cause = "shutdown" THEN "done" ELSE shutdownState
  /\ UNCHANGED <<batchSize, eventBatch, isShuttingDown, batchCount,
                 processedCount, successCount, errorCount, strategyLog,
                 accepted, rejected, batchAge>>
  /\ UNCHANGED notBatch

\* the setTimeout callback of startBatchTimer
batchTimerFires ==
  /\ timerPending
  /\ timerLeft = 0
  /\ timerPending' = FALSE
  /\ IF Len(eventBatch) > 0
       THEN processBatch("timer", eventBatch)
       ELSE UNCHANGED <<eventBatch, batchCount, flushes, errorCount,
                        strategyLog, batchAge>>
  /\ UNCHANGED <<batchSize, timerLeft, isShuttingDown, processedCount,
                 successCount, accepted, rejected, shutdownState>>
  /\ UNCHANGED notBatch

shutdown_noAwait ==
  /\ shutdownState = "no"
  /\ isShuttingDown' = TRUE
  /\ timerPending' = FALSE
  /\ shutdownState' = "done"
  /\ IF Len(eventBatch) > 0
       THEN processBatch("shutdown", eventBatch)
       ELSE UNCHANGED <<eventBatch, batchCount, flushes, errorCount,
                        strategyLog, batchAge>>
  /\ UNCHANGED <<batchSize, timerLeft, processedCount, successCount, accepted,
                 rejected>>
  /\ UNCHANGED notBatch

\* shutdown() up to its await
shutdown ==
  /\ shutdownState = "no"
  /\ isShuttingDown' = TRUE
  /\ timerPending' = FALSE
  /\ IF Len(eventBatch) > 0
       THEN /\ processBatch("shutdown", eventBatch)
            /\ shutdownState' = "running"
       ELSE /\ shutdownState' = "done"
            /\ UNCHANGED <<eventBatch, batchCount, flushes, errorCount,
                           strategyLog, batchAge>>
  /\ UNCHANGED <<batchSize, timerLeft, processedCount, successCount, accepted,
                 rejected>>
  /\ UNCHANGED notBatch

\* one tick of time passes; a due timer fires before the next tick
Tick ==
  /\ ~(timerPending /\ timerLeft = 0)
  /\ timerLeft' = IF timerPending THEN timerLeft - 1 ELSE timerLeft
  /\ batchAge' = IF eventBatch # <<>> THEN Min(batchAge + 1, MaxAge) ELSE batchAge
  /\ UNCHANGED <<batchSize, eventBatch, timerPending, isShuttingDown,
                 batchCount, processedCount, successCount, errorCount, flushes,
                 strategyLog, accepted, rejected, shutdownState>>
  /\ UNCHANGED notBatch

\* ------------------------------------------------------------------------
\* EventProcessingSubject (observer fan-out)
\* ------------------------------------------------------------------------
\* NotificationObserver, and two further observers with other interests
NotificationObserver ==
  [name |-> "notification",
   interestedIn |-> {"OrderCreated", "OrderCancelled", "OrderCompleted"}]
AuditObserver ==
  [name |-> "audit", interestedIn |-> {"OrderCreated", "OrderShipped"}]
ShippingObserver ==
  [name |-> "shipping", interestedIn |-> {"OrderShipped"}]

ObserverPool == {NotificationObserver, AuditObserver, ShippingObserver}

\* the lists addObserver can have built: distinct observers in any order
ObserverLists ==
  {s \in UNION {[1..n -> ObserverPool] : n \in 0..Cardinality(ObserverPool)} :
     \A i, j \in 1..Len(s) : s[i] = s[j] => i = j}

\* event types notifyObservers is called with
NotifiedTypes == {"OrderCreated", "OrderShipped"}

\* observer.isInterestedIn(eventType)
isInterestedIn(o, t) == t \in observers[o].interestedIn

\* `this.observers.filter(...)`: positions of the interested observers, in
\* registration order
RECURSIVE InterestedUpTo(_, _)
InterestedUpTo(n, t) ==
  IF n = 0 THEN <<>>
  ELSE IF isInterestedIn(n, t)
         THEN Append(InterestedUpTo(n - 1, t), n)
         ELSE InterestedUpTo(n - 1, t)

InterestedObservers(t) == InterestedUpTo(Len(observers), t)

Range(s) == {s[i] : i \in 1..Len(s)}

NotifyIdle ==
  /\ observers = <<NotificationObserver>>
  /\ notifs = <<>>

NotifyInit ==
  /\ observers \in ObserverLists
  /\ notifs = <<>>

\* notifyObservers(event) up to `await Promise.allSettled(notifications)`:
\* the map starts handleEvent on every interested observer, in order; with
\* no interested observer the call returns at once
notifyObserversCall(t, caller) ==
  LET interested == InterestedObservers(t) IN
  notifs' = Append(notifs, [type |-> t,
                            caller |-> caller,
                            started |-> interested,
                            pending |-> Range(interested),
                            failed |-> {},
                            logged |-> {},
                            returned |-> (interested = <<>>),
                            threw |-> FALSE])

\* a direct call of notifyObservers
notifyObservers(t) ==
  /\ Len(notifs) < MaxNotifications
  /\ notifyObserversCall(t, 0)
  /\ UNCHANGED observers
  /\ UNCHANGED notNotify

\* the promise of observer.handleEvent(event) settles; on rejection the
\* .catch callback logs the failure and rethrows
handleEventSettles(n, o, ok) ==
  /\ n \in 1..Len(notifs)
  /\ o \in notifs[n].pending
  /\ notifs' = [notifs EXCEPT ![n].pending = @ \ {o},
                              ![n].failed = IF ok THEN @ ELSE @ \cup {o},
                              ![n].logged = IF ok THEN @ ELSE @ \cup {o}]
  /\ UNCHANGED observers
  /\ UNCHANGED notNotify

AllSettled_first(n) == notifs[n].pending # Range(notifs[n].started)

\* Promise.allSettled(notifications) is fulfilled
AllSettled(n) == notifs[n].pending = {}

NotifyRejects_onFailure(n) == notifs[n].failed # {}

\* whether notifyObservers rejects: Promise.allSettled never rejects
NotifyRejects(n) == FALSE

\* notifyObservers(event) after the await
notifyObserversReturns(n) ==
  /\ n \in 1..Len(notifs)
  /\ ~notifs[n].returned
  /\ AllSettled(n)
  /\ notifs' = [notifs EXCEPT ![n].returned = TRUE,
                              ![n].threw = NotifyRejects(n)]
  /\ UNCHANGED observers
  /\ UNCHANGED notNotify

\* ------------------------------------------------------------------------
\* Message pipeline: RabbitMQClient.consume callback -> RetryableMessageHandler
\* -> RetryMechanism -> CompositeMessageHandler -> BatchProcessor, observers
\* ------------------------------------------------------------------------
\* what a delivered message carries
MsgKinds == {"malformed", "badEventId", "invalidOrder", "validOrder"}

\* JSON.parse(msg.content.toString()) returns
Parses(kind) == kind # "malformed"

\* convertToDomainEvent returns: new EventId(message.eventId) accepts the id
Converts(kind) == kind # "badEventId"

ValidationPasses_always(kind) == TRUE

\* validateEventData(event) returns without throwing
ValidationPasses(kind) == kind = "validOrder"

Settlement_alwaysAck(resolved) == "ack"

\* what the consume callback does with the message: ack after the handler
\* resolved, nack(msg, false, false) in the catch block
Settlement(resolved) == IF resolved THEN "ack" ELSE "nack"

\* the catch block of the retry loop: last attempt or wait for the next one
AfterFailedAttempt(a) == IF AttemptsExhausted(a) THEN "deadLetter" ELSE "waiting"

AfterValidate_failFast(kind, a) ==
  IF ValidationPasses(kind) THEN "validated" ELSE "deadLetter"

\* the retry loop invokes the operation in attempt a: handle runs
\* validateEventData, which returns or throws without waiting for anything
AfterValidate(kind, a) ==
  IF ValidationPasses(kind) THEN "validated" ELSE AfterFailedAttempt(a)

PipelineIdle == msgs = <<>>

\* the broker delivers a message: the consume callback runs without a wait
\* through JSON.parse, convertToDomainEvent, the start of the retry loop and
\* the validation of the first attempt; a message that does not parse is
\* rejected in the same pass
deliver(kind) ==
  /\ Len(msgs) < MaxMsgs
  /\ msgs' = Append(msgs,
       [kind |-> kind,
        pc |-> IF ~Parses(kind) THEN "settled"
               ELSE IF ~Converts(kind) THEN "rejected"
               ELSE AfterValidate(kind, 1),
        handler |-> IF ~Parses(kind) THEN "notCalled"
                    ELSE IF ~Converts(kind) THEN "rejected" ELSE "pending",
        attempt |-> IF Parses(kind) /\ Converts(kind) THEN 1 ELSE 0,
        steps |-> IF Parses(kind) /\ Converts(kind)
                    THEN <<[attempt |-> 1, step |-> "validate"]>> ELSE <<>>,
        event |-> 0,
        flush |-> 0,
        notif |-> 0,
        dlqCalls |-> 0,
        delay |-> config.initialDelayMs,
        waits |-> <<>>,
        settled |-> IF ~Parses(kind) THEN <<Settlement(FALSE)>> ELSE <<>>])
  /\ UNCHANGED notPipeline

\* handle: `await this.batchProcessor.addEvent(event)` is called
handleSubmit(m) ==
  /\ m \in 1..Len(msgs)
  /\ msgs[m].pc = "validated"
  /\ addEventCall("OrderCreated")
  /\ msgs' = [msgs EXCEPT
       ![m].steps = Append(@, [attempt |-> msgs[m].attempt, step |-> "addEvent"]),
       ![m].event = IF Len(accepted') > Len(accepted) THEN Len(accepted') + rejected ELSE 0,
       ![m].flush = IF Len(flushes') > Len(flushes) THEN Len(flushes') ELSE 0,
       ![m].pc = "submitted"]
  /\ UNCHANGED <<rvars, nvars, xvars>>

\* addEvent has returned (at once, or when the flush it started is over):
\* `await this.eventSubject.notifyObservers(event)` is called
handleNotify(m) ==
  /\ m \in 1..Len(msgs)
  /\ msgs[m].pc = "submitted"
  /\ msgs[m].flush # 0 => flushes[msgs[m].flush].done
  /\ IF msgs[m].flush # 0 /\ flushes[msgs[m].flush].thrown
       THEN /\ msgs' = [msgs EXCEPT ![m].pc = AfterFailedAttempt(msgs[m].attempt)]
            /\ UNCHANGED notifs
       ELSE /\ notifyObserversCall("OrderCreated", m)
            /\ msgs' = [msgs EXCEPT
                 ![m].steps = Append(@, [attempt |-> msgs[m].attempt,
                                         step |-> "notifyObservers"]),
                 ![m].notif = Len(notifs) + 1,
                 ![m].pc = "notifying"]
  /\ UNCHANGED observers
  /\ UNCHANGED <<rvars, bvars, xvars>>

\* notifyObservers has returned: handle resolves, executeWithRetry returns
\* and RetryableMessageHandler.handle resolves
handleReturns(m) ==
  /\ m \in 1..Len(msgs)
  /\ msgs[m].pc = "notifying"
  /\ notifs[msgs[m].notif].returned
  /\ msgs' = IF notifs[msgs[m].notif].threw
               THEN [msgs EXCEPT ![m].pc = AfterFailedAttempt(msgs[m].attempt)]
               ELSE [msgs EXCEPT ![m].pc = "resolved", ![m].handler = "resolved"]
  /\ UNCHANGED notPipeline

\* the wait after a failed attempt (`await this.delay(delay)`) is over: the
\* delay is multiplied, and the next iteration of the loop invokes the
\* operation again, up to the end of the validation
retryDelayElapsed(m) ==
  /\ m \in 1..Len(msgs)
  /\ msgs[m].pc = "waiting"
  /\ msgs' = [msgs EXCEPT
       ![m].attempt = @ + 1,
       ![m].waits = Append(@, msgs[m].delay),
       ![m].delay = NextDelay(@),
       ![m].steps = Append(@, [attempt |-> msgs[m].attempt + 1,
                               step |-> "validate"]),
       ![m].pc = AfterValidate(msgs[m].kind, msgs[m].attempt + 1)]
  /\ UNCHANGED notPipeline

\* after the last failed attempt: the dead-letter call (its failure is
\* caught), then `throw lastError`, which RetryableMessageHandler rethrows
deadLetter(m) ==
  /\ m \in 1..Len(msgs)
  /\ msgs[m].pc = "deadLetter"
  /\ msgs' = [msgs EXCEPT ![m].dlqCalls = IF hasDlq THEN @ + 1 ELSE @,
                          ![m].pc = "rejected",
                          ![m].handler = "rejected"]
  /\ UNCHANGED notPipeline

\* the consume callback after `await handler(content)`: ack, or the catch
\* block with nack(msg, false, false)
settle(m) ==
  /\ m \in 1..Len(msgs)
  /\ msgs[m].pc \in {"resolved", "rejected"}
  /\ msgs' = [msgs EXCEPT
       ![m].settled = Append(@, Settlement(msgs[m].handler = "resolved")),
       ![m].pc = "settled"]
  /\ UNCHANGED notPipeline

\* ------------------------------------------------------------------------
\* RetryableMessageHandler: conversion of the raw message
\* ------------------------------------------------------------------------
\* values a field of a raw message may carry; <<>> is a missing field
EventIdValues ==
  {<<>>, <<"">>, <<"550e8400-e29b-41d4-a716-446655440001">>, <<"order-42">>}
EventTypeValues == {<<>>, <<"">>, <<"OrderCreated">>}
AggregateIdValues == {<<>>, <<"">>, <<"order-456">>}
VersionValues == {<<>>, <<0>>, <<2>>}
OccurredOnValues == {<<>>, <<"2023-01-01T12:00:00Z">>}
DataValues == {<<>>, <<"payload">>}

RawMessages ==
  [eventId : EventIdValues, eventType : EventTypeValues,
   aggregateId : AggregateIdValues, version : VersionValues,
   occurredOn : OccurredOnValues, data : DataValues]

\* what uuidv4() and `new Date()` return during the call
GeneratedUuid == "7c9e6679-7425-40de-944b-e07fc1f90ae7"
ProcessingTime == "now"

\* the strings the regular expression of EventId.validate accepts
Uuids == {"550e8400-e29b-41d4-a716-446655440001", GeneratedUuid}

\* JavaScript truthiness of message.field: present and not the falsy value
\* of its type ('' for strings, 0 for numbers)
Truthy(field, falsy) == field # <<>> /\ field[1] # falsy

\* `new EventId(message.eventId)` throws 'Invalid EventId format'
EventIdThrows(msg) ==
  Truthy(msg.eventId, "") /\ msg.eventId[1] \notin Uuids

\* the object convertToDomainEvent returns when EventId does not throw
convertToDomainEvent(msg) ==
  [eventId |-> IF Truthy(msg.eventId, "") THEN msg.eventId[1] ELSE GeneratedUuid,
   eventType |-> IF Truthy(msg.eventType, "") THEN msg.eventType[1] ELSE "UnknownEvent",
   aggregateId |-> IF Truthy(msg.aggregateId, "") THEN msg.aggregateId[1] ELSE "unknown",
   data |-> IF Truthy(msg.data, "") THEN msg.data ELSE <<msg>>,
   version |-> IF Truthy(msg.version, 0) THEN msg.version[1] ELSE 1,
   occurredOn |-> IF Truthy(msg.occurredOn, "") THEN msg.occurredOn[1]
                  ELSE ProcessingTime]

ConvertIdle ==
  /\ message = [eventId |-> <<>>, eventType |-> <<>>, aggregateId |-> <<>>,
                version |-> <<>>, occurredOn |-> <<>>, data |-> <<>>]
  /\ domainEvent = <<>>
  /\ handed = <<>>
  /\ dlqContext = <<>>
  /\ hpc = "idle"

ConvertInit ==
  /\ message \in RawMessages
  /\ domainEvent = <<>>
  /\ handed = <<>>
  /\ dlqContext = <<>>
  /\ hpc = "received"

\* handle(message) up to the call of executeWithRetry: the conversion is
\* outside the try block, so its exception rejects handle at once
handleMessage ==
  /\ hpc = "received"
  /\ IF EventIdThrows(message)
       THEN /\ hpc' = "rejected"
            /\ domainEvent' = domainEvent
       ELSE /\ hpc' = "retrying"
            /\ domainEvent' = <<convertToDomainEvent(message)>>
  /\ UNCHANGED <<message, handed, dlqContext>>
  /\ UNCHANGED notConvert

\* one attempt of the operation `() => this.baseHandler.handle(domainEvent)`
\* and what the retry loop does with its outcome
baseHandlerHandle(ok) ==
  /\ hpc = "retrying"
  /\ handed' = Append(handed, domainEvent[1])
  /\ hpc' = IF ok THEN "resolved"
            ELSE IF AttemptsExhausted(Len(handed) + 1) THEN "deadLetter"
            ELSE "retrying"
  /\ UNCHANGED <<message, domainEvent, dlqContext>>
  /\ UNCHANGED notConvert

\* sendToDeadLetterQueue(event, lastError, attempt) with the event that was
\* passed to executeWithRetry, then the rethrow
deadLetterEvent ==
  /\ hpc = "deadLetter"
  /\ dlqContext' = Append(dlqContext, domainEvent[1])
  /\ hpc' = "rejected"
  /\ UNCHANGED <<message, domainEvent, handed>>
  /\ UNCHANGED notConvert

\* ------------------------------------------------------------------------
\* Validation of OrderCreated: CompositeMessageHandler.validateEventData
\* and OrderProcessingStrategy.handleOrderCreated
\* ------------------------------------------------------------------------
\* a JavaScript value as the checks see it: its kind, and the number, the
\* string or the array length where it has one
Undefined == [kind |-> "undefined", num |-> 0, str |-> "", len |-> 0]
Null == [kind |-> "null", num |-> 0, str |-> "", len |-> 0]
Str(s) == [kind |-> "string", num |-> 0, str |-> s, len |-> 0]
Num(n) == [kind |-> "number", num |-> n, str |-> "", len |-> 0]
Arr(n) == [kind |-> "array", num |-> 0, str |-> "", len |-> n]

\* payloads a parsed JSON message can carry (JSON has no NaN)
CustomerIdValues == {Undefined, Null, Str(""), Str("customer-789")}
TotalValues ==
  {Undefined, Null, Str("invalid"), Str("100"), Num(0 - 100), Num(0), Num(1), Num(100)}
ItemsValues == {Undefined, Null, Str("invalid"), Arr(0), Arr(1), Arr(2)}

Payloads ==
  [customerId : CustomerIdValues, total : TotalValues, items : ItemsValues]

\* `!v` for the values above
Not(v) ==
  \/ v.kind \in {"undefined", "null"}
  \/ v.kind = "string" /\ v.str = ""
  \/ v.kind = "number" /\ v.num = 0

\* typeof v
TypeOf(v) == IF v.kind \in {"null", "array"} THEN "object" ELSE v.kind

\* Array.isArray(v)
IsArray(v) == v.kind = "array"

Accepted == "accepted"

validateEventDataResult_noItemsCheck(data) ==
  IF Not(data.customerId) \/ data.customerId.kind = "null"
    THEN "Invalid order: customerId is required"
  ELSE IF TypeOf(data.total) # "number" \/ data.total.num <= 0
    THEN "Invalid order: total must be a positive number"
  ELSE Accepted

\* validateEventData for an OrderCreated event: the message of the error it
\* throws, or Accepted
validateEventDataResult(data) ==
  IF Not(data.customerId) \/ data.customerId.kind = "null"
    THEN "Invalid order: customerId is required"
  ELSE IF TypeOf(data.total) # "number" \/ data.total.num <= 0
    THEN "Invalid order: total must be a positive number"
  ELSE IF ~IsArray(data.items) \/ data.items.len = 0
    THEN "Invalid order: items array is required and cannot be empty"
  ELSE Accepted

\* step 1 of handleOrderCreated: the message of the error it throws, or
\* Accepted
handleOrderCreatedResult(data) ==
  IF Not(data.customerId) \/ data.customerId.kind = "null"
    THEN "Invalid order: customerId is required"
  ELSE IF TypeOf(data.total) # "number" \/ data.total.num <= 0
    THEN "Invalid order: total must be a positive number"
  ELSE IF ~IsArray(data.items) \/ data.items.len = 0
    THEN "Invalid order: items array is required and cannot be empty"
  ELSE Accepted

NotRun == "not run"

ValidateIdle ==
  /\ payload = [customerId |-> Undefined, total |-> Undefined, items |-> Undefined]
  /\ handlerVerdict = NotRun
  /\ strategyVerdict = NotRun

ValidateInit ==
  /\ payload \in Payloads
  /\ handlerVerdict = NotRun
  /\ strategyVerdict = NotRun

\* CompositeMessageHandler.validateEventData(event) with event.data = payload
validateEventData ==
  /\ handlerVerdict = NotRun
  /\ handlerVerdict' = validateEventDataResult(payload)
  /\ UNCHANGED <<payload, strategyVerdict>>
  /\ UNCHANGED notValidate

\* OrderProcessingStrategy.handleOrderCreated(event), its validation step
handleOrderCreated ==
  /\ strategyVerdict = NotRun
  /\ strategyVerdict' = handleOrderCreatedResult(payload)
  /\ UNCHANGED <<payload, handlerVerdict>>
  /\ UNCHANGED notValidate

\* ------------------------------------------------------------------------
\* Order entity
\* ------------------------------------------------------------------------
OrderStatuses == {"pending", "completed", "cancelled"}

CancelError_onlyCancelled(st) ==
  IF st = "cancelled" THEN "Order is already cancelled" ELSE NoError

\* the message of the error cancel throws in status st, NoError when it
\* goes through
CancelError(st) ==
  IF st = "cancelled" THEN "Order is already cancelled"
  ELSE IF st = "completed" THEN "Cannot cancel a completed order"
  ELSE NoError

\* the message of the error complete throws in status st
CompleteError(st) ==
  IF st = "completed" THEN "Order is already completed"
  ELSE IF st = "cancelled" THEN "Cannot complete a cancelled order"
  ELSE NoError

OrderIdle ==
  /\ orderStatus = "pending"
  /\ orderEvents = <<>>
  /\ orderCall = [n |-> 0, method |-> "constructor", error |-> NoError]

\* new Order(props): the status is the one of the props, no event recorded
OrderInit ==
  /\ orderStatus \in OrderStatuses
  /\ orderEvents = <<>>
  /\ orderCall = [n |-> 0, method |-> "constructor", error |-> NoError]

\* order.create()
create ==
  /\ orderCall.n < MaxOrderCalls
  /\ orderStatus' = "pending"
  /\ orderEvents' = Append(orderEvents, "OrderCreatedEvent")
  /\ orderCall' = [n |-> orderCall.n + 1, method |-> "create", error |-> NoError]
  /\ UNCHANGED notOrder

\* order.cancel(reason)
cancel ==
  /\ orderCall.n < MaxOrderCalls
  /\ orderCall' = [n |-> orderCall.n + 1, method |-> "cancel",
                   error |-> CancelError(orderStatus)]
  /\ IF CancelError(orderStatus) # NoError
       THEN UNCHANGED <<orderStatus, orderEvents>>
       ELSE /\ orderStatus' = "cancelled"
            /\ orderEvents' = Append(orderEvents, "OrderCancelledEvent")
  /\ UNCHANGED notOrder

\* order.complete()
complete ==
  /\ orderCall.n < MaxOrderCalls
  /\ orderCall' = [n |-> orderCall.n + 1, method |-> "complete",
                   error |-> CompleteError(orderStatus)]
  /\ IF CompleteError(orderStatus) # NoError
       THEN UNCHANGED <<orderStatus, orderEvents>>
       ELSE /\ orderStatus' = "completed"
            /\ orderEvents' = Append(orderEvents, "OrderCompletedEvent")
  /\ UNCHANGED notOrder

\* ------------------------------------------------------------------------
\* BatchProcessor, per-type variant (eventBatches map, flushAll,
\* isProcessing flag)
\* ------------------------------------------------------------------------
\* the types this.strategies has an entry for, and the types that arrive
PerTypeRegistered == {"OrderCreated", "OrderCancelled"}
PerTypeEventTypes == PerTypeRegistered \cup {"Mystery"}

PerTypeIdle ==
  /\ eventBatches = [t \in PerTypeRegistered |-> <<>>]
  /\ batchKeys = <<>>
  /\ batchTimers = {}
  /\ timersPending = {}
  /\ isProcessing = FALSE
  /\ strategyBatches = <<>>
  /\ submitted = 0

\* processBatch(eventType), called when batch is the array stored for the
\* type: return at the isProcessing guard, or set the flag and call
\* strategy.processBatch(batch)
processBatchCall(t, batch) ==
  IF isProcessing
    THEN UNCHANGED <<isProcessing, strategyBatches>>
    ELSE /\ isProcessing' = TRUE
         /\ strategyBatches' = Append(strategyBatches,
              [type |-> t, events |-> batch, outcome |-> "pending"])

\* addEvent(event) of the variant
perTypeAddEvent(t) ==
  /\ submitted < MaxEvents
  /\ Len(strategyBatches) < MaxStrategyBatches
  /\ submitted' = submitted + 1
  /\ IF t \notin PerTypeRegistered
       THEN UNCHANGED <<eventBatches, batchKeys, batchTimers, timersPending,
                        isProcessing, strategyBatches>>
       ELSE /\ eventBatches' = [eventBatches EXCEPT ![t] = Append(@, submitted + 1)]
            /\ batchKeys' = IF \E k \in 1..Len(batchKeys) : batchKeys[k] = t
                              THEN batchKeys ELSE Append(batchKeys, t)
            /\ IF Len(eventBatches[t]) + 1 >= batchSize
                 THEN /\ processBatchCall(t, Append(eventBatches[t], submitted + 1))
                      /\ UNCHANGED <<batchTimers, timersPending>>
                 ELSE /\ batchTimers' = batchTimers \cup {t}
                      /\ timersPending' = IF t \in batchTimers THEN timersPending
                                          ELSE timersPending \cup {t}
                      /\ UNCHANGED <<isProcessing, strategyBatches>>
  /\ UNCHANGED notPerType

\* the setTimeout callback of setTimerIfNeeded
perTypeTimerFires(t) ==
  /\ t \in timersPending
  /\ Len(strategyBatches) < MaxStrategyBatches
  /\ timersPending' = timersPending \ {t}
  /\ processBatchCall(t, eventBatches[t])
  /\ UNCHANGED <<eventBatches, batchKeys, batchTimers, submitted>>
  /\ UNCHANGED notPerType

\* flushAll(): processBatch for every key in one pass; after the first call
\* has set isProcessing the calls for the other keys return at the guard
flushAll ==
  /\ Len(strategyBatches) < MaxStrategyBatches
  /\ batchKeys # <<>>
  /\ processBatchCall(batchKeys[1], eventBatches[batchKeys[1]])
  /\ UNCHANGED <<eventBatches, batchKeys, batchTimers, timersPending, submitted>>
  /\ UNCHANGED notPerType

\* strategy.processBatch(batch) settles: catch (log), finally
\* isProcessing = false, and `if (this.eventBatches.has(eventType))
\* await this.processBatch(eventType)`; the key is never deleted and the
\* array never emptied, so the call made here finds the flag cleared and
\* hands the same array to the strategy again
strategyProcessBatchSettles(ok) ==
  /\ isProcessing
  /\ Len(strategyBatches) < MaxStrategyBatches
  /\ LET last == strategyBatches[Len(strategyBatches)] IN
       /\ strategyBatches' =
            Append([strategyBatches EXCEPT ![Len(strategyBatches)].outcome =
                      IF ok THEN "resolved" ELSE "rejected"],
                   [type |-> last.type, events |-> eventBatches[last.type],
                    outcome |-> "pending"])
       /\ isProcessing' = TRUE
  /\ UNCHANGED <<eventBatches, batchKeys, batchTimers, timersPending, submitted>>
  /\ UNCHANGED notPerType

\* ------------------------------------------------------------------------
\* EventProcessingService.stop and RabbitMQClient.disconnect
\* ------------------------------------------------------------------------
\* what connect() left in this.channel and this.connection: nothing, the
\* connection only (createChannel failed), or both
HandleStates == {<<"none", "none">>, <<"none", "open">>, <<"open", "open">>}

ChannelCloseError == "Channel close failed"
ConnectionCloseError == "Connection close failed"

StopIdle ==
  /\ stopPc = "notCalled"
  /\ brokerChannel = "open"
  /\ brokerConnection = "open"
  /\ stopError = NoError

StopInit ==
  /\ stopPc = "notCalled"
  /\ \E h \in HandleStates : brokerChannel = h[1] /\ brokerConnection = h[2]
  /\ stopError = NoError

DisconnectRejects_swallow(ok) == FALSE

\* whether disconnect() rejects when a close() call settled: the catch block
\* logs and rethrows
DisconnectRejects(ok) == ~ok

\* disconnect() from the point where the channel is dealt with: close the
\* connection when there is one, else return
AfterChannel == IF brokerConnection = "open" THEN "closingConnection"
                ELSE "disconnected"

\* stop() is called: disconnect() runs up to its first await
stop ==
  /\ stopPc = "notCalled"
  /\ stopPc' = IF brokerChannel = "open" THEN "closingChannel" ELSE AfterChannel
  /\ UNCHANGED <<brokerChannel, brokerConnection, stopError>>
  /\ UNCHANGED notStop

\* `await this.channel.close()` settles
channelCloseSettles(ok) ==
  /\ stopPc = "closingChannel"
  /\ brokerChannel' = IF ok THEN "closed" ELSE brokerChannel
  /\ IF DisconnectRejects(ok)
       THEN stopPc' = "rejected" /\ stopError' = ChannelCloseError
       ELSE stopPc' = AfterChannel /\ stopError' = stopError
  /\ UNCHANGED brokerConnection
  /\ UNCHANGED notStop

\* `await this.connection.close()` settles
connectionCloseSettles(ok) ==
  /\ stopPc = "closingConnection"
  /\ brokerConnection' = IF ok THEN "closed" ELSE brokerConnection
  /\ IF DisconnectRejects(ok)
       THEN stopPc' = "rejected" /\ stopError' = ConnectionCloseError
       ELSE stopPc' = "disconnected" /\ stopError' = stopError
  /\ UNCHANGED brokerChannel
  /\ UNCHANGED notStop

\* disconnect() has resolved: stop() calls batchProcessor.shutdown()
stopCallsShutdown ==
  /\ stopPc = "disconnected"
  /\ shutdown

\* shutdown() has returned: stop() resolves
stopResolves ==
  /\ stopPc = "disconnected"
  /\ shutdownState = "done"
  /\ stopPc' = "resolved"
  /\ UNCHANGED <<brokerChannel, brokerConnection, stopError>>
  /\ UNCHANGED notStop

\* ------------------------------------------------------------------------
\* Specifications
\* ------------------------------------------------------------------------
RetryIdle ==
  /\ config = [maxAttempts |-> 3, initialDelayMs |-> 1000,
               maxDelayMs |-> 30000, backoffFactor |-> 2]
  /\ hasDlq = TRUE
  /\ hasEvent = FALSE
  /\ rpc = "idle"
  /\ attempt = 0
  /\ delay = 0
  /\ lastError = NoError
  /\ opCalls = 0
  /\ opErrs = <<>>
  /\ waits = <<>>
  /\ dlqLog = <<>>
  /\ outcome = NoOutcome
  /\ callsMade = 0
  /\ channel = "null"

BatchIdle ==
  /\ batchSize = 3
  /\ eventBatch = <<>>
  /\ timerPending = TRUE
  /\ timerLeft = BatchIntervalTicks
  /\ isShuttingDown = FALSE
  /\ batchCount = 0
  /\ processedCount = 0
  /\ successCount = 0
  /\ errorCount = 0
  /\ flushes = <<>>
  /\ strategyLog = <<>>
  /\ accepted = <<>>
  /\ rejected = 0
  /\ batchAge = 0
  /\ shutdownState = "no"

\* the components checked on their own are not running
OthersIdle == ConvertIdle /\ ValidateIdle /\ OrderIdle /\ PerTypeIdle /\ StopIdle

InitRetry == RetryInit /\ BatchIdle /\ NotifyIdle /\ PipelineIdle /\ OthersIdle

NextRetry ==
  \/ \E ev \in BOOLEAN : executeWithRetry(ev)
  \/ operationInvoke
  \/ operationSucceeds
  \/ \E msg \in OpErrors : operationFails(msg)
  \/ delayElapsed
  \/ \E i \in InitResults, p \in PublishResults : sendToDeadLetterQueue(i, p)

SpecRetry == InitRetry /\ [][NextRetry]_vars

\* the retry engine when every started attempt settles, every wait elapses
\* and every dead-letter call settles
SpecRetryLive ==
  /\ InitRetry
  /\ [][NextRetry]_vars
  /\ WF_vars(operationInvoke)
  /\ WF_vars(operationSucceeds \/ \E msg \in OpErrors : operationFails(msg))
  /\ WF_vars(delayElapsed)
  /\ WF_vars(\E i \in InitResults, p \in PublishResults : sendToDeadLetterQueue(i, p))

InitBatch == BatchInit /\ RetryIdle /\ NotifyIdle /\ PipelineIdle /\ OthersIdle

NextBatch ==
  \/ \E t \in EventTypes : addEvent(t)
  \/ \E f \in 1..Len(flushes), i \in 1..MaxBatchSize, ok \in BOOLEAN :
       strategySettles(f, i, ok)
  \/ \E f \in 1..Len(flushes) : processBatchCompletes(f)
  \/ batchTimerFires
  \/ shutdown
  \/ Tick

SpecBatch == InitBatch /\ [][NextBatch]_vars

\* the running service: the broker path submits order events, the periodic
\* task submits BatchFlush events (BatchFlushStrategy.process only logs and
\* never fails); no shutdown.  The period of the task is not measured
\* against the batch interval: its callback may run at any time.
ServiceEventTypes == {"OrderCreated"}

NextService ==
  \/ \E t \in ServiceEventTypes : addEvent(t)
  \/ periodicTask
  \/ \E f \in 1..Len(flushes), i \in 1..MaxBatchSize, ok \in BOOLEAN :
       /\ strategySettles(f, i, ok)
       /\ flushes[f].events[i].type = "BatchFlush" => ok
  \/ \E f \in 1..Len(flushes) : processBatchCompletes(f)
  \/ batchTimerFires
  \/ Tick

SpecService == InitBatch /\ [][NextService]_vars

\* the running service with its scheduling: setInterval runs the periodic
\* task again and again as long as the service is not stopped
SpecServiceLive == SpecService /\ WF_vars(periodicTask)

InitNotify == NotifyInit /\ RetryIdle /\ BatchIdle /\ PipelineIdle /\ OthersIdle

NextNotify ==
  \/ \E t \in NotifiedTypes : notifyObservers(t)
  \/ \E n \in 1..Len(notifs), o \in 1..Len(observers), ok \in BOOLEAN :
       handleEventSettles(n, o, ok)
  \/ \E n \in 1..Len(notifs) : notifyObserversReturns(n)

SpecNotify == InitNotify /\ [][NextNotify]_vars

\* the message path with the default retry configuration
InitPipeline == RetryIdle /\ BatchInit /\ NotifyIdle /\ PipelineIdle /\ OthersIdle

NextPipeline ==
  \/ \E kind \in MsgKinds : deliver(kind)
  \/ \E m \in 1..Len(msgs) : handleSubmit(m)
  \/ \E m \in 1..Len(msgs) : handleNotify(m)
  \/ \E m \in 1..Len(msgs) : handleReturns(m)
  \/ \E m \in 1..Len(msgs) : retryDelayElapsed(m)
  \/ \E m \in 1..Len(msgs) : deadLetter(m)
  \/ \E m \in 1..Len(msgs) : settle(m)
  \/ \E f \in 1..Len(flushes), i \in 1..MaxBatchSize, ok \in BOOLEAN :
       strategySettles(f, i, ok)
  \/ \E f \in 1..Len(flushes) : processBatchCompletes(f)
  \/ batchTimerFires
  \/ Tick
  \/ \E n \in 1..Len(notifs), o \in 1..Len(observers), ok \in BOOLEAN :
       handleEventSettles(n, o, ok)
  \/ \E n \in 1..Len(notifs) : notifyObserversReturns(n)

SpecPipeline == InitPipeline /\ [][NextPipeline]_vars

\* the message path while EventProcessingService.stop shuts the batch
\* processor down: messages already delivered are still being handled
NextPipelineShutdown ==
  \/ NextPipeline
  \/ shutdown

SpecPipelineShutdown == InitPipeline /\ [][NextPipelineShutdown]_vars

\* RetryableMessageHandler.handle for one raw message, with the default
\* retry configuration
InitConvert ==
  /\ ConvertInit
  /\ RetryIdle /\ BatchIdle /\ NotifyIdle /\ PipelineIdle
  /\ ValidateIdle /\ OrderIdle /\ PerTypeIdle /\ StopIdle

NextConvert ==
  \/ handleMessage
  \/ \E ok \in BOOLEAN : baseHandlerHandle(ok)
  \/ deadLetterEvent

SpecConvert == InitConvert /\ [][NextConvert]_vars

\* the two validations of one OrderCreated payload
InitValidate ==
  /\ ValidateInit
  /\ RetryIdle /\ BatchIdle /\ NotifyIdle /\ PipelineIdle
  /\ ConvertIdle /\ OrderIdle /\ PerTypeIdle /\ StopIdle

NextValidate ==
  \/ validateEventData
  \/ handleOrderCreated

SpecValidate == InitValidate /\ [][NextValidate]_vars

\* one Order and the calls made on it
InitOrder ==
  /\ OrderInit
  /\ RetryIdle /\ BatchIdle /\ NotifyIdle /\ PipelineIdle
  /\ ConvertIdle /\ ValidateIdle /\ PerTypeIdle /\ StopIdle

NextOrder ==
  \/ create
  \/ cancel
  \/ complete

SpecOrder == InitOrder /\ [][NextOrder]_vars

\* the per-type variant of the batch processor, constructed with some
\* batchSize
InitPerType ==
  /\ PerTypeIdle
  /\ RetryIdle /\ BatchInit /\ NotifyIdle /\ PipelineIdle
  /\ ConvertIdle /\ ValidateIdle /\ OrderIdle /\ StopIdle

NextPerType ==
  \/ \E t \in PerTypeEventTypes : perTypeAddEvent(t)
  \/ \E t \in PerTypeRegistered : perTypeTimerFires(t)
  \/ flushAll
  \/ \E ok \in BOOLEAN : strategyProcessBatchSettles(ok)

SpecPerType == InitPerType /\ [][NextPerType]_vars

\* the service is stopped while the batch processor is at work
InitStop ==
  /\ StopInit
  /\ RetryIdle /\ BatchInit /\ NotifyIdle /\ PipelineIdle
  /\ ConvertIdle /\ ValidateIdle /\ OrderIdle /\ PerTypeIdle

NextStop ==
  \/ \E t \in ServiceEventTypes : addEvent(t)
  \/ \E f \in 1..Len(flushes), i \in 1..MaxBatchSize, ok \in BOOLEAN :
       strategySettles(f, i, ok)
  \/ \E f \in 1..Len(flushes) : processBatchCompletes(f)
  \/ batchTimerFires
  \/ Tick
  \/ stop
  \/ \E ok \in BOOLEAN : channelCloseSettles(ok)
  \/ \E ok \in BOOLEAN : connectionCloseSettles(ok)
  \/ stopCallsShutdown
  \/ stopResolves

SpecStop == InitStop /\ [][NextStop]_vars

\* ------------------------------------------------------------------------
\* Properties of the retry engine (SpecRetry)
\* ------------------------------------------------------------------------
LastOpError == opErrs[Len(opErrs)]

\* C1: an operation that fails on every attempt is invoked exactly
\* maxAttempts times; then, when an event and a dead-letter sink are
\* configured, sendToDeadLetterQueue is called exactly once with
\* retryCount = maxAttempts (and not at all otherwise); then the caller gets
\* an error with the message of the operation's last error.
C1_ExhaustionEscalatesOnceAndRaises ==
  /\ Len(opErrs) = config.maxAttempts => rpc \in {"deadLetter", "thrown"}
  /\ rpc = "deadLetter" =>
       /\ opCalls = config.maxAttempts
       /\ Len(opErrs) = config.maxAttempts
       /\ dlqLog = <<>>
       /\ outcome.kind = "pending"
  /\ rpc = "thrown" =>
       /\ opCalls = config.maxAttempts
       /\ Len(opErrs) = config.maxAttempts
       /\ IF hasEvent /\ hasDlq
            THEN /\ Len(dlqLog) = 1
                 /\ dlqLog[1].retryCount = config.maxAttempts
                 /\ dlqLog[1].errorMessage = LastOpError
            ELSE dlqLog = <<>>
       /\ outcome = [kind |-> "thrown", error |-> LastOpError]

\* maxAttempts = 2, the operation always throws "boom": two attempts, one
\* dead-letter call with retryCount = 2, the caller gets "boom"
C1_Witness ==
  /\ rpc = "thrown"
  /\ config.maxAttempts = 2
  /\ opErrs = <<"boom", "boom">>
  /\ opCalls = 2
  /\ Len(dlqLog) = 1
  /\ dlqLog[1].retryCount = 2
  /\ outcome.error = "boom"

\* C2: an operation that fails m times (0 <= m < maxAttempts) and then
\* succeeds returns after exactly m+1 invocations, without any dead-letter
\* call and without any wait or attempt after the success.
C2_SuccessReturnsImmediately ==
  rpc = "returned" =>
    /\ Len(opErrs) < config.maxAttempts
    /\ opCalls = Len(opErrs) + 1
    /\ attempt = opCalls
    /\ Len(waits) = Len(opErrs)
    /\ dlqLog = <<>>
    /\ outcome = [kind |-> "returned", error |-> NoError]

\* the operation failed maxAttempts - 1 >= 1 times and then succeeded
C2_Witness ==
  /\ rpc = "returned"
  /\ config.maxAttempts >= 3
  /\ Len(opErrs) = config.maxAttempts - 1
  /\ opCalls = config.maxAttempts
  /\ dlqLog = <<>>

\* C3: when the retries are exhausted and sendToDeadLetterQueue itself
\* rejects (also when its lazy initialize() fails), the caller still gets
\* the operation's last error.
C3_DlqFailureKeepsOriginalError ==
  (rpc = "thrown" /\ dlqLog # <<>> /\ dlqLog[1].dlqError # NoError) =>
    /\ outcome.kind = "thrown"
    /\ outcome.error = LastOpError
    /\ outcome.error \in OpErrors

\* the lazy channel initialization failed inside the dead-letter call
C3_Witness ==
  /\ rpc = "thrown"
  /\ dlqLog # <<>>
  /\ dlqLog[1].dlqError = "dlq: connect failed"
  /\ outcome.error = LastOpError

\* the wait sequence the backoff formula describes, k = 1 being the wait
\* before attempt 2
CappedBackoff(k) ==
  Min(config.initialDelayMs * Pow(config.backoffFactor, k - 1), config.maxDelayMs)

\* C4: for an always-failing operation the waits are
\* initialDelayMs * backoffFactor^(k-1), each capped at maxDelayMs, one wait
\* before each of the attempts 2..maxAttempts and none after the last.
C4_WaitsFollowCappedBackoff ==
  rpc \in {"deadLetter", "thrown"} =>
    /\ Len(waits) = config.maxAttempts - 1
    /\ \A k \in 1..Len(waits) : waits[k] = CappedBackoff(k)

\* C4 on the configuration of the scenario: 1000, 2000, 4000, 8000
C4_Scenario ==
  (/\ rpc \in {"deadLetter", "thrown"}
   /\ config = [maxAttempts |-> 5, initialDelayMs |-> 1000,
                maxDelayMs |-> 30000, backoffFactor |-> 2])
    => waits = <<1000, 2000, 4000, 8000>>

C6_WaitsNeverExceedMaxDelay ==
  \A n \in 1..Len(waits) : waits[n] <= config.maxDelayMs

\* ------------------------------------------------------------------------
\* Properties of the batch processor (SpecBatch)
\* ------------------------------------------------------------------------
\* no flush was started by the timer or by shutdown
OnlySizeFlushes == \A f \in 1..Len(flushes) : flushes[f].cause = "size"

CeilDiv(n, k) == (n + k - 1) \div k

C8_BufferedEventsHaveTimer ==
  (eventBatch # <<>> /\ ~isShuttingDown /\ InFlight = {}) => timerPending

FlushCompletesInStep ==
  \E f \in 1..Len(flushes) : ~flushes[f].done /\ flushes'[f].done

C10_OneFlushInFlight ==
  Cardinality({f \in InFlight : flushes[f].pending # {}}) <= 1

\* the events taken by the first n flushes, in the order they were taken
RECURSIVE FlushedUpTo(_)
FlushedUpTo(n) ==
  IF n = 0 THEN <<>> ELSE FlushedUpTo(n - 1) \o flushes[n].events

\* C11: a flush takes the buffer and leaves an empty one before any strategy
\* call starts: the accepted events are, in order, the batches of the
\* flushes followed by the buffer, so every accepted event is in the buffer
\* or in the batch of exactly one flush; each flushed event with a strategy
\* was handed to it exactly once; the batch of a started flush never
\* changes, an event added meanwhile goes to the buffer or to a later flush.
C11_EveryEventInExactlyOneFlush ==
  /\ [](/\ accepted = FlushedUpTo(Len(flushes)) \o eventBatch
        /\ \A i, j \in 1..Len(accepted) : accepted[i] = accepted[j] => i = j
        /\ strategyLog = WithStrategy(FlushedUpTo(Len(flushes)))
        /\ \A f \in 1..Len(flushes) : flushes[f].events # <<>>)
  /\ [][\A f \in 1..Len(flushes) :
          /\ Len(flushes') >= f
          /\ flushes'[f].events = flushes[f].events]_vars

\* a size-triggered flush is still in flight and an event added meanwhile
\* was taken by a timer-triggered flush that runs at the same time
C11_Witness ==
  \E f, g \in InFlight :
    /\ f < g
    /\ flushes[f].cause = "size"
    /\ flushes[g].cause = "timer"
    /\ flushes[f].pending # {}
    /\ flushes[g].pending # {}

\* strategy lookups and strategy calls of the first n flushes that are over
RECURSIVE SettledUpTo(_)
SettledUpTo(n) ==
  IF n = 0 THEN 0
  ELSE SettledUpTo(n - 1) + Len(flushes[n].events)
                          - Cardinality(flushes[n].pending)

\* a strategy.process call of flush f fails in this step
StrategyFailsInStep(f) ==
  /\ f \in 1..Len(flushes)
  /\ flushes'[f].pending # flushes[f].pending
  /\ successCount' = successCount

\* C12: an error of a strategy during a flush never reaches the caller of
\* processBatch, so addEvent resolves normally also when its event started
\* the flush; the failed event is counted (errorCount is incremented in the
\* catch block that logs it) and the events of the batch are not put back
\* into the buffer.
C12_StrategyErrorStaysInFlush ==
  /\ [](/\ \A f \in 1..Len(flushes) : ~flushes[f].thrown
        /\ errorCount + successCount = SettledUpTo(Len(flushes))
        /\ processedCount = successCount
        /\ \A f \in 1..Len(flushes) :
             \A i \in 1..Len(flushes[f].events), j \in 1..Len(eventBatch) :
               flushes[f].events[i] # eventBatch[j])
  /\ [][\A f \in 1..Len(flushes) :
          StrategyFailsInStep(f) =>
            /\ errorCount' = errorCount + 1
            /\ ~flushes'[f].thrown
            /\ eventBatch' = eventBatch
            /\ accepted' = accepted]_vars

\* the addEvent that filled the batch has returned although a strategy call
\* of its flush failed; the buffer is empty
C12_Witness ==
  /\ Len(flushes) = 1
  /\ flushes[1].cause = "size"
  /\ flushes[1].done
  /\ ~flushes[1].thrown
  /\ \A i \in 1..Len(flushes[1].events) : flushes[1].events[i].type \in Registered
  /\ errorCount >= 1
  /\ successCount >= 1
  /\ eventBatch = <<>>

\* the events of a batch whose type has no registered strategy
WithoutStrategy(batch) == SelectSeq(batch, LAMBDA e : e.type \notin Registered)

\* C13: an event whose type has no registered strategy is accepted by
\* addEvent like any other; the flush that takes it starts no strategy call
\* for it, logs one warning for it (counted in errorCount next to the
\* warning) and does not fail: no error reaches addEvent or the caller of
\* the flush.
C13_UnregisteredTypeIsSkipped ==
  /\ [](/\ \A i \in 1..Len(strategyLog) : strategyLog[i].type \in Registered
        /\ \A f \in 1..Len(flushes) :
             /\ ~flushes[f].thrown
             /\ \A i \in flushes[f].pending :
                  flushes[f].events[i].type \in Registered
        /\ errorCount >= Len(WithoutStrategy(FlushedUpTo(Len(flushes)))))
  /\ [][Len(flushes') > Len(flushes) =>
          /\ Len(flushes') = Len(flushes) + 1
          /\ errorCount' = errorCount +
               Len(WithoutStrategy(flushes'[Len(flushes')].events))
          /\ strategyLog' = strategyLog \o
               WithStrategy(flushes'[Len(flushes')].events)]_vars

\* a batch of unregistered events only was flushed by the addEvent that
\* filled it, which has returned; no strategy was invoked and one warning
\* per event was counted
C13_Witness ==
  /\ Len(flushes) = 1
  /\ flushes[1].cause = "size"
  /\ flushes[1].done
  /\ ~flushes[1].thrown
  /\ Len(flushes[1].events) >= 2
  /\ \A i \in 1..Len(flushes[1].events) : flushes[1].events[i].type = "Mystery"
  /\ strategyLog = <<>>
  /\ errorCount = Len(flushes[1].events)

\* shutdown() is called in this step
ShutdownCalledInStep == ~isShuttingDown /\ isShuttingDown'

\* C14: when shutdown() has returned the buffer is empty, no flush timer is
\* pending, and the events that were in the buffer when shutdown was called
\* were all taken by the flush shutdown started, whose strategy calls have
\* all settled (each counted as a success or as an error); from the call of
\* shutdown on no timer is pending, so none is armed afterwards.
C14_ShutdownLeavesNothingBuffered ==
  /\ [](/\ isShuttingDown => ~timerPending
        /\ shutdownState = "done" =>
             /\ isShuttingDown
             /\ eventBatch = <<>>
             /\ \A f \in 1..Len(flushes) :
                  flushes[f].cause = "shutdown" =>
                    /\ flushes[f].done
                    /\ flushes[f].pending = {}
                    /\ ~flushes[f].thrown)
  /\ [][ShutdownCalledInStep =>
          IF eventBatch = <<>>
            THEN flushes' = flushes /\ shutdownState' = "done"
            ELSE /\ Len(flushes') = Len(flushes) + 1
                 /\ flushes'[Len(flushes')].cause = "shutdown"
                 /\ flushes'[Len(flushes')].events = eventBatch
                 /\ strategyLog' = strategyLog \o WithStrategy(eventBatch)
                 /\ shutdownState' = "running"]_vars

\* shutdown() has returned after flushing two buffered events, one of which
\* failed in its strategy
C14_Witness ==
  /\ shutdownState = "done"
  /\ \E f \in 1..Len(flushes) :
       /\ flushes[f].cause = "shutdown"
       /\ Len(flushes[f].events) = 2
       /\ flushes[f].events = WithStrategy(flushes[f].events)
       /\ Len(flushes) = 1
  /\ errorCount = 1
  /\ successCount = 1

\* C15: once shutdown() has been called no event is appended to the buffer
\* again: the buffer stays empty, and an addEvent call made from then on
\* returns without buffering its event and without starting a flush.
C15_NoEventBufferedAfterShutdown ==
  /\ [](isShuttingDown => eventBatch = <<>>)
  /\ [][isShuttingDown =>
          /\ isShuttingDown'
          /\ accepted' = accepted
          /\ eventBatch' = eventBatch
          /\ Len(flushes') = Len(flushes)
          /\ batchCount' = batchCount
          /\ strategyLog' = strategyLog]_vars

\* two addEvent calls were turned away while the flush started by
\* shutdown() was still running
C15_Witness ==
  /\ shutdownState = "running"
  /\ rejected = 2
  /\ Len(accepted) = 1
  /\ Len(flushes) = 1
  /\ flushes[1].events = accepted

\* ------------------------------------------------------------------------
\* Properties of the observer fan-out (SpecNotify)
\* ------------------------------------------------------------------------
\* C16: notifyObservers(event) starts handleEvent exactly once on every
\* registered observer whose isInterestedIn(event.eventType) is true, on no
\* other observer, and returns at once when there is none; a failure of an
\* observer is logged, leaves the calls on the other observers as they are,
\* and the notifyObservers call never throws.
C16_NotifiesInterestedAndNeverThrows ==
  /\ [](\A n \in 1..Len(notifs) :
          /\ Range(notifs[n].started) =
               {o \in 1..Len(observers) :
                  notifs[n].type \in observers[o].interestedIn}
          /\ \A i, j \in 1..Len(notifs[n].started) :
               notifs[n].started[i] = notifs[n].started[j] => i = j
          /\ notifs[n].started = <<>> => notifs[n].returned
          /\ ~notifs[n].threw
          /\ notifs[n].logged = notifs[n].failed
          /\ notifs[n].failed \cap notifs[n].pending = {}
          /\ notifs[n].failed \cup notifs[n].pending \subseteq
               Range(notifs[n].started))
  /\ [][\A n \in 1..Len(notifs) :
          /\ notifs'[n].started = notifs[n].started
          /\ notifs'[n].failed # notifs[n].failed =>
               \A o \in notifs[n].pending :
                 o \in notifs'[n].pending \/ o \in notifs'[n].failed]_vars

\* three observers are registered, two are interested in the event; one of
\* the two failed, the other completed afterwards, and the call has
\* returned without throwing
C16_Witness ==
  /\ Len(observers) = 3
  /\ \E n \in 1..Len(notifs) :
       /\ Len(notifs[n].started) = 2
       /\ Cardinality(notifs[n].failed) = 1
       /\ notifs[n].pending = {}
       /\ notifs[n].returned
       /\ ~notifs[n].threw

\* a notifyObservers call is made in this step
NotifyCalledInStep == Len(notifs') = Len(notifs) + 1

\* C17: notifyObservers starts handleEvent on all interested observers in
\* the step in which it is called, before any of them settles, so an
\* observer that has not completed does not hold back the start of the
\* others; it returns only when every started call has settled.
C17_StartsAllThenAwaitsAll ==
  /\ [](\A n \in 1..Len(notifs) :
          /\ notifs[n].returned => notifs[n].pending = {}
          /\ notifs[n].pending # {} =>
               notifs[n].started = InterestedObservers(notifs[n].type))
  /\ [][NotifyCalledInStep =>
          LET c == notifs'[Len(notifs')] IN
          /\ c.started = InterestedObservers(c.type)
          /\ c.pending = Range(c.started)
          /\ c.failed = {}]_vars

\* the second of two started observers has settled while the first is
\* still running, and the call has not returned
C17_Witness ==
  \E n \in 1..Len(notifs) :
    /\ Len(notifs[n].started) = 2
    /\ notifs[n].pending = {notifs[n].started[1]}
    /\ ~notifs[n].returned

\* ------------------------------------------------------------------------
\* Properties of the message path (SpecPipeline)
\* ------------------------------------------------------------------------
\* the strategy call for event e has settled, or a flush found no strategy
\* for it
EventProcessed(e) ==
  \E f \in 1..Len(flushes) :
    \E i \in 1..Len(flushes[f].events) :
      /\ flushes[f].events[i].id = e
      /\ i \notin flushes[f].pending

\* C18: observers are notified of an event only after its strategy
\* invocation by a batch flush has completed: whenever handleEvent has been
\* started for the event of a message, that event is neither buffered nor
\* being processed.
C18_ObserversAfterProcessing ==
  \A m \in 1..Len(msgs) :
    (msgs[m].notif # 0 /\ notifs[msgs[m].notif].started # <<>>) =>
      EventProcessed(msgs[m].event)

\* the steps of CompositeMessageHandler.handle, in the order of its code
HandleOrder == <<"validate", "addEvent", "notifyObservers">>

\* the steps message m ran in attempt a
StepsOfAttempt(m, a) == SelectSeq(msgs[m].steps, LAMBDA s : s.attempt = a)

\* C19: in each attempt of CompositeMessageHandler.handle the steps run in
\* the order validate, addEvent, notifyObservers, each at most once;
\* notifyObservers is called only after addEvent has returned (when addEvent
\* started a flush, after that flush is over); an attempt whose validation
\* fails ends there: the event is not submitted, no observer is notified,
\* and the retry engine takes the failure (it waits for the next attempt or
\* goes to the dead-letter call).
C19_ValidateSubmitNotifyInOrder ==
  /\ \A m \in 1..Len(msgs) :
       /\ \A a \in 1..config.maxAttempts :
            /\ Len(StepsOfAttempt(m, a)) <= Len(HandleOrder)
            /\ \A i \in 1..Len(StepsOfAttempt(m, a)) :
                 StepsOfAttempt(m, a)[i].step = HandleOrder[i]
       /\ \A i \in 1..Len(msgs[m].steps) :
            msgs[m].steps[i].attempt \in 1..config.maxAttempts
       /\ msgs[m].notif # 0 =>
            /\ msgs[m].event # 0
            /\ msgs[m].flush # 0 => flushes[msgs[m].flush].done
       /\ msgs[m].kind # "validOrder" =>
            /\ \A i \in 1..Len(msgs[m].steps) :
                 msgs[m].steps[i].step = "validate"
            /\ Len(msgs[m].steps) = msgs[m].attempt
            /\ msgs[m].event = 0
            /\ msgs[m].notif = 0
            /\ msgs[m].handler # "resolved"
            /\ msgs[m].pc \in {"waiting", "deadLetter", "rejected", "settled"}
  /\ Len(accepted) = Cardinality({m \in 1..Len(msgs) : msgs[m].event # 0})
  /\ \A n \in 1..Len(notifs) :
       /\ notifs[n].caller \in 1..Len(msgs)
       /\ msgs[notifs[n].caller].notif = n

\* a valid message whose addEvent filled the batch: the flush was awaited,
\* then the observer was notified, all in the first attempt
C19_Witness ==
  \E m \in 1..Len(msgs) :
    /\ msgs[m].kind = "validOrder"
    /\ msgs[m].flush # 0
    /\ flushes[msgs[m].flush].done
    /\ msgs[m].steps = <<[attempt |-> 1, step |-> "validate"],
                         [attempt |-> 1, step |-> "addEvent"],
                         [attempt |-> 1, step |-> "notifyObservers"]>>
    /\ notifs[msgs[m].notif].started # <<>>

\* C20: every delivered message is settled at most once and, when the
\* consume callback is over, exactly once: with ack exactly when the
\* retry-wrapped handler resolved, with nack(requeue = false) when it
\* rejected or was not reached; never both, never with requeue.
C20_SettledOnceByHandlerOutcome ==
  /\ [](\A m \in 1..Len(msgs) :
          /\ Len(msgs[m].settled) <= 1
          /\ (msgs[m].pc = "settled") = (Len(msgs[m].settled) = 1)
          /\ \A i \in 1..Len(msgs[m].settled) :
               /\ msgs[m].settled[i] \in {"ack", "nack"}
               /\ (msgs[m].settled[i] = "ack") = (msgs[m].handler = "resolved")
          /\ msgs[m].handler = "resolved" =>
               /\ msgs[m].pc \in {"resolved", "settled"}
               /\ msgs[m].notif # 0
               /\ notifs[msgs[m].notif].returned
          /\ msgs[m].handler = "notCalled" => msgs[m].kind = "malformed")
  /\ [][\A m \in 1..Len(msgs) :
          msgs[m].settled # <<>> => msgs'[m].settled = msgs[m].settled]_vars

\* a message whose validation failed in every attempt was dead-lettered and
\* then rejected once, without requeue
C20_Witness ==
  \E m \in 1..Len(msgs) :
    /\ msgs[m].kind = "invalidOrder"
    /\ msgs[m].attempt = config.maxAttempts
    /\ Len(msgs[m].steps) = config.maxAttempts
    /\ msgs[m].dlqCalls = 1
    /\ msgs[m].handler = "rejected"
    /\ msgs[m].settled = <<"nack">>

\* C21: a message is rejected without requeue only after the retry engine
\* ran maxAttempts attempts for it and the dead-letter sink was called for
\* its event.
C21_RejectedOnlyAfterEscalation ==
  \A m \in 1..Len(msgs) :
    \A i \in 1..Len(msgs[m].settled) :
      msgs[m].settled[i] = "nack" =>
        /\ msgs[m].attempt = config.maxAttempts
        /\ msgs[m].dlqCalls >= 1

\* the waits message m had between its attempts follow the configured
\* backoff: initialDelayMs first, then each the capped multiple of the last
WaitsAsConfigured(m) ==
  \A i \in 1..Len(msgs[m].waits) :
    msgs[m].waits[i] = IF i = 1 THEN config.initialDelayMs
                       ELSE NextDelay(msgs[m].waits[i - 1])

\* C22: a validation failure is retried like any other failure: for a
\* message whose OrderCreated payload is invalid the handler is invoked in
\* attempts 1, 2, ... up to maxAttempts, each attempt after the first
\* preceded by one configured wait; the dead-letter call happens only after
\* attempt maxAttempts has failed, the rejection of the message only after
\* the dead-letter call, and a rejected message has had exactly maxAttempts
\* invocations.
C22_ValidationFailureUsesAllAttempts ==
  \A m \in 1..Len(msgs) :
    msgs[m].kind = "invalidOrder" =>
      /\ msgs[m].attempt \in 1..config.maxAttempts
      /\ Len(msgs[m].steps) = msgs[m].attempt
      /\ \A i \in 1..Len(msgs[m].steps) :
           msgs[m].steps[i] = [attempt |-> i, step |-> "validate"]
      /\ Len(msgs[m].waits) = msgs[m].attempt - 1
      /\ WaitsAsConfigured(m)
      /\ msgs[m].pc \in {"deadLetter", "rejected", "settled"} =>
           msgs[m].attempt = config.maxAttempts
      /\ msgs[m].dlqCalls = IF msgs[m].pc \in {"rejected", "settled"} THEN 1 ELSE 0
      /\ msgs[m].settled # <<>> =>
           /\ msgs[m].settled = <<"nack">>
           /\ msgs[m].pc = "settled"

\* an invalid order was validated maxAttempts times with the configured
\* waits in between, then dead-lettered, then rejected
C22_Witness ==
  \E m \in 1..Len(msgs) :
    /\ msgs[m].kind = "invalidOrder"
    /\ Len(msgs[m].steps) = config.maxAttempts
    /\ Len(msgs[m].waits) = config.maxAttempts - 1
    /\ msgs[m].waits[1] = config.initialDelayMs
    /\ msgs[m].waits[2] = config.initialDelayMs * config.backoffFactor
    /\ msgs[m].dlqCalls = 1
    /\ msgs[m].settled = <<"nack">>

\* the attempts of the current invocation that have ended: the failed ones
\* and the one that returned
AttemptsEnded == Len(opErrs) + (IF outcome.kind = "returned" THEN 1 ELSE 0)

\* C23: within one executeWithRetry invocation the attempts are strictly
\* sequential: at most one call of the operation is in progress; while
\* attempt n is in progress, attempts 1..n-1 have all failed and n-1 waits
\* have elapsed; and a call of the operation starts only when every earlier
\* call has failed and the wait after each of them is over.
C23_AttemptsStrictlySequential ==
  /\ [](/\ opCalls - AttemptsEnded \in {0, 1}
        /\ (opCalls - AttemptsEnded = 1) = (rpc = "running")
        /\ rpc = "running" =>
             /\ opCalls = attempt
             /\ Len(opErrs) = attempt - 1
             /\ Len(waits) = attempt - 1)
  /\ [][opCalls' = opCalls + 1 =>
          /\ rpc = "attempting"
          /\ Len(opErrs) = opCalls
          /\ Len(waits) = opCalls
          /\ outcome.kind = "pending"]_vars

\* the third attempt is in progress after two failed attempts and two waits
C23_Witness ==
  /\ rpc = "running"
  /\ opCalls = 3
  /\ Len(opErrs) = 2
  /\ Len(waits) = 2

\* the terminal states of an invocation: Success and Fail
Terminal == {"returned", "thrown"}

\* the steps of one invocation the state machine allows, as pairs of the
\* position before and after: Attempting(n) starts its attempt, the attempt
\* ends in Success, in the wait before Attempting(n+1), or exhausted in the
\* dead-letter step, which ends in Fail (when no event or no sink is
\* configured the dead-letter step makes no call and Fail follows at once)
AllowedSteps ==
  {<<"attempting", "running">>, <<"running", "returned">>,
   <<"running", "waiting">>, <<"waiting", "attempting">>,
   <<"running", "deadLetter">>, <<"deadLetter", "thrown">>,
   <<"running", "thrown">>}

\* C24: every executeWithRetry invocation starts in Attempting(1) and moves
\* only along Attempting(n) -> Success | Attempting(n+1) | Exhausted ->
\* DeadLetter -> Fail, with n in 1..maxAttempts and n growing by one per
\* wait; the exhausted branch is taken in attempt maxAttempts only; after
\* Success or Fail no attempt and no dead-letter call happens and the
\* outcome stays what it is; and when every attempt, wait and dead-letter
\* call ends, the invocation reaches Success or Fail.
C24_StateMachineTerminates ==
  /\ [](/\ rpc # "idle" => attempt \in 1..config.maxAttempts
        /\ rpc \in {"deadLetter", "thrown"} => attempt = config.maxAttempts
        /\ (rpc = "returned") = (outcome.kind = "returned")
        /\ (rpc = "thrown") = (outcome.kind = "thrown"))
  /\ [][IF callsMade' # callsMade
          THEN /\ rpc \in Terminal \cup {"idle"}
               /\ rpc' = "attempting"
               /\ attempt' = 1
          ELSE /\ rpc' # rpc => <<rpc, rpc'>> \in AllowedSteps
               /\ attempt' = IF rpc = "waiting" THEN attempt + 1 ELSE attempt
               /\ <<rpc, rpc'>> = <<"running", "thrown">> => ~(hasEvent /\ hasDlq)
               /\ rpc \in Terminal =>
                    /\ rpc' = rpc
                    /\ opCalls' = opCalls
                    /\ dlqLog' = dlqLog
                    /\ outcome' = outcome]_vars
  /\ (rpc \notin Terminal \cup {"idle"}) ~> (rpc \in Terminal)

\* a second invocation went through two failed attempts and the dead-letter
\* call and has ended in Fail
C24_Witness ==
  /\ callsMade = 2
  /\ rpc = "thrown"
  /\ attempt = 2
  /\ Len(waits) = 1
  /\ Len(dlqLog) = 1
  /\ outcome.kind = "thrown"

\* ------------------------------------------------------------------------
\* Properties of the message conversion (SpecConvert)
\* ------------------------------------------------------------------------
\* C25: once handle has dealt with a raw message there is a converted event
\* whose eventType, aggregateId, version, eventId and occurredOn are the
\* message's, or 'UnknownEvent', 'unknown', 1, a generated id and the
\* processing time where the message has none; every attempt of the base
\* handler and the dead-letter call got that same event.
C25_EveryMessageConverted ==
  hpc # "received" =>
    /\ domainEvent # <<>>
    /\ LET e == domainEvent[1] IN
         /\ e.eventType = IF Truthy(message.eventType, "")
                            THEN message.eventType[1] ELSE "UnknownEvent"
         /\ e.aggregateId = IF Truthy(message.aggregateId, "")
                              THEN message.aggregateId[1] ELSE "unknown"
         /\ e.version = IF Truthy(message.version, 0)
                          THEN message.version[1] ELSE 1
         /\ e.eventId = IF Truthy(message.eventId, "")
                          THEN message.eventId[1] ELSE GeneratedUuid
         /\ e.occurredOn = IF Truthy(message.occurredOn, "")
                             THEN message.occurredOn[1] ELSE ProcessingTime
         /\ \A i \in 1..Len(handed) : handed[i] = e
         /\ \A i \in 1..Len(dlqContext) : dlqContext[i] = e

\* ------------------------------------------------------------------------
\* Properties of the OrderCreated validation (SpecValidate)
\* ------------------------------------------------------------------------
\* the three conditions under which an order is invalid
CustomerIdMissing ==
  \/ payload.customerId.kind \in {"undefined", "null"}
  \/ payload.customerId = Str("")
TotalNotPositive == ~(payload.total.kind = "number" /\ payload.total.num > 0)
ItemsEmpty == ~(payload.items.kind = "array" /\ payload.items.len > 0)

CustomerIdError == "Invalid order: customerId is required"
TotalError == "Invalid order: total must be a positive number"
ItemsError == "Invalid order: items array is required and cannot be empty"

\* verdict v is right for the payload: a rejection exactly when one of the
\* three conditions holds, with the message of a condition that holds
RightVerdict(v) ==
  /\ (v # Accepted) = (CustomerIdMissing \/ TotalNotPositive \/ ItemsEmpty)
  /\ v \in {Accepted, CustomerIdError, TotalError, ItemsError}
  /\ v = CustomerIdError => CustomerIdMissing
  /\ v = TotalError => TotalNotPositive
  /\ v = ItemsError => ItemsEmpty

OrderCalledInStep(method) ==
  orderCall'.n = orderCall.n + 1 /\ orderCall'.method = method

\* the call of this step was turned away with error message msg: status and
\* recorded events are as before
OrderCallRejected(msg) ==
  /\ orderCall'.error = msg
  /\ orderStatus' = orderStatus
  /\ orderEvents' = orderEvents

\* the call of this step went through: the status is newStatus and exactly
\* one event, of class eventClass, was appended
OrderCallSucceeded(newStatus, eventClass) ==
  /\ orderCall'.error = NoError
  /\ orderStatus' = newStatus
  /\ orderEvents' = Append(orderEvents, eventClass)

\* C27: cancel() succeeds only from 'pending' and throws 'Order is already
\* cancelled' from 'cancelled' and 'Cannot cancel a completed order' from
\* 'completed'; complete() succeeds only from 'pending' and throws 'Order is
\* already completed' from 'completed' and 'Cannot complete a cancelled
\* order' from 'cancelled'; a rejected call leaves status and event list
\* unchanged, a successful call appends exactly one event of its type.
C27_OrderTransitionsGuarded ==
  [][/\ OrderCalledInStep("cancel") =>
          CASE orderStatus = "pending" ->
                 OrderCallSucceeded("cancelled", "OrderCancelledEvent")
            [] orderStatus = "cancelled" ->
                 OrderCallRejected("Order is already cancelled")
            [] orderStatus = "completed" ->
                 OrderCallRejected("Cannot cancel a completed order")
     /\ OrderCalledInStep("complete") =>
          CASE orderStatus = "pending" ->
                 OrderCallSucceeded("completed", "OrderCompletedEvent")
            [] orderStatus = "completed" ->
                 OrderCallRejected("Order is already completed")
            [] orderStatus = "cancelled" ->
                 OrderCallRejected("Cannot complete a cancelled order")]_vars

\* an order was cancelled, and the complete() that followed was turned away:
\* the only recorded event is the cancellation
C27_Witness ==
  /\ orderStatus = "cancelled"
  /\ orderEvents = <<"OrderCancelledEvent">>
  /\ orderCall = [n |-> 2, method |-> "complete",
                  error |-> "Cannot complete a cancelled order"]

FlushStartsInStep == Len(flushes') = Len(flushes) + 1

\* C29: the events of one flushed batch are processed in parallel with
\* independent failure: the step that starts a flush starts strategy.process
\* for every event of the batch that has a strategy, in submission order,
\* before any of them has settled; a call that fails takes only itself out
\* of the calls in progress and leaves the flush running; a flush is over
\* only when none of its calls is in progress.
C29_ParallelWithIndependentFailure ==
  /\ [](\A f \in 1..Len(flushes) : flushes[f].done => flushes[f].pending = {})
  /\ [][FlushStartsInStep =>
          LET f == Len(flushes')
              batch == flushes'[f].events
          IN /\ batch = eventBatch \/ batch = Append(eventBatch, batch[Len(batch)])
             /\ flushes'[f].pending =
                  {i \in 1..Len(batch) : batch[i].type \in Registered}
             /\ strategyLog' = strategyLog \o
                  SelectSeq(batch, LAMBDA e : e.type \in Registered)
             /\ ~flushes'[f].done]_vars
  /\ [][\A f \in 1..Len(flushes) :
          StrategyFailsInStep(f) =>
            /\ Cardinality(flushes'[f].pending) =
                 Cardinality(flushes[f].pending) - 1
            /\ flushes'[f].pending \subseteq flushes[f].pending
            /\ ~flushes'[f].done
            /\ \A g \in 1..Len(flushes) :
                 g # f => flushes'[g] = flushes[g]]_vars
  /\ [][\A f \in 1..Len(flushes) :
          (flushes'[f].done /\ ~flushes[f].done) => flushes[f].pending = {}]_vars

\* a batch of three: one strategy call has failed, one has succeeded after
\* it or before it, the third is still in progress and the flush is running
C29_Witness ==
  \E f \in 1..Len(flushes) :
    /\ Len(flushes[f].events) = 3
    /\ \A i \in 1..3 : flushes[f].events[i].type \in Registered
    /\ Cardinality(flushes[f].pending) = 1
    /\ ~flushes[f].done
    /\ Len(flushes) = 1
    /\ errorCount = 1
    /\ successCount = 1

\* C30: an event whose type has no registered strategy is dropped at
\* submission: it is never in the buffer (so it does not count toward the
\* batch size and starts no size flush) and never in a flushed batch.
C30_UnregisteredDroppedAtSubmission ==
  /\ \A i \in 1..Len(eventBatch) : eventBatch[i].type \in Registered
  /\ \A f \in 1..Len(flushes) :
       \A i \in 1..Len(flushes[f].events) :
         flushes[f].events[i].type \in Registered

\* ------------------------------------------------------------------------
\* Properties of the running service (SpecService)
\* ------------------------------------------------------------------------
\* the periodic task runs in this step: a BatchFlush event is accepted
PeriodicTaskInStep ==
  /\ Len(accepted') = Len(accepted) + 1
  /\ accepted'[Len(accepted')].type = "BatchFlush"

\* C31: each run of the periodic task flushes what is buffered at that
\* moment, whatever the number of buffered events: the step starts a flush
\* that takes the buffered events, and the buffer is empty after it.
C31_PeriodicTaskFlushesBuffer ==
  [][(PeriodicTaskInStep /\ eventBatch # <<>>) =>
       /\ Len(flushes') = Len(flushes) + 1
       /\ \A i \in 1..Len(eventBatch) :
            flushes'[Len(flushes')].events[i] = eventBatch[i]
       /\ eventBatch' = <<>>]_vars

\* ------------------------------------------------------------------------
\* Properties of the per-type batch processor (SpecPerType)
\* ------------------------------------------------------------------------
\* C32: processBatch(eventType) hands the buffered batch of the type to the
\* strategy exactly once: no event is in two of the batches handed to
\* strategy.processBatch, and once a batch was handed over and the strategy
\* has settled, the events are no longer in the buffer and the call has
\* returned (the processor is not processing).
C32_BatchHandedOverOnce ==
  /\ \A i, j \in 1..Len(strategyBatches) :
       i # j =>
         \A a \in 1..Len(strategyBatches[i].events),
            b \in 1..Len(strategyBatches[j].events) :
           strategyBatches[i].events[a] # strategyBatches[j].events[b]
  /\ \A i \in 1..Len(strategyBatches) :
       strategyBatches[i].outcome # "pending" =>
         \A a \in 1..Len(strategyBatches[i].events),
            b \in 1..Len(eventBatches[strategyBatches[i].type]) :
           strategyBatches[i].events[a]
             # eventBatches[strategyBatches[i].type][b]

\* ------------------------------------------------------------------------
\* Liveness of the running service (SpecServiceLive)
\* ------------------------------------------------------------------------
Buffered(id) == \E i \in 1..Len(eventBatch) : eventBatch[i].id = id
HandedToStrategy(id) == \E k \in 1..Len(strategyLog) : strategyLog[k].id = id
TakenByFlush(id) ==
  \E f \in 1..Len(flushes) :
    \E i \in 1..Len(flushes[f].events) : flushes[f].events[i].id = id

\* the number of addEvent calls the bound on events still allows covers the
\* calls that fill the buffer up to batchSize
RoomToFill == MaxEvents - (Len(accepted) + rejected) >= batchSize - Len(eventBatch)

\* C33: in the running service every event in the buffer is eventually taken
\* by a flush and handed to its strategy, with no further broker message
\* needed and also when the batch timer is no longer pending (as long as
\* the bound on events leaves room for the periodic calls that fill the
\* batch).
C33_BufferedEventuallyFlushed ==
  \A id \in 1..MaxEvents :
    (Buffered(id) /\ RoomToFill) ~> (TakenByFlush(id) /\ HandedToStrategy(id))

\* a size flush in flight whose last event is the periodic BatchFlush event
\* and which took an order event, while the batch timer is not pending and
\* no flush has completed: the timer had fired on an empty buffer
C33_Witness ==
  /\ Len(flushes) = 1
  /\ flushes[1].cause = "size"
  /\ ~flushes[1].done
  /\ ~timerPending
  /\ flushes[1].events[Len(flushes[1].events)].type = "BatchFlush"
  /\ \E i \in 1..Len(flushes[1].events) :
       /\ flushes[1].events[i].type = "OrderCreated"
       /\ HandedToStrategy(flushes[1].events[i].id)

\* ------------------------------------------------------------------------
\* Retries and duplicate submission (SpecPipelineShutdown)
\* ------------------------------------------------------------------------
StepCount(m, step) ==
  Cardinality({i \in 1..Len(msgs[m].steps) : msgs[m].steps[i].step = step})

\* C34: over all attempts made for one message, addEvent is called at most
\* once and notifyObservers at most once, so its event is appended to the
\* buffer at most once and observers hear of it at most once; an attempt
\* that was followed by another one ended at the validation.
C34_NoDuplicateAcrossRetries ==
  /\ \A m \in 1..Len(msgs) :
       /\ StepCount(m, "addEvent") <= 1
       /\ StepCount(m, "notifyObservers") <= 1
       /\ Cardinality({n \in 1..Len(notifs) : notifs[n].caller = m}) <= 1
       /\ \A i \in 1..Len(msgs[m].steps) :
            msgs[m].steps[i].attempt < msgs[m].attempt =>
              msgs[m].steps[i].step = "validate"
  /\ Len(accepted) + rejected
       = Cardinality({m \in 1..Len(msgs) : StepCount(m, "addEvent") = 1})

\* a message whose attempts were all made and all failed: nothing was
\* appended to the buffer and no observer was notified
C34_Witness ==
  \E m \in 1..Len(msgs) :
    /\ msgs[m].attempt = config.maxAttempts
    /\ msgs[m].attempt > 1
    /\ msgs[m].pc = "rejected"
    /\ StepCount(m, "validate") = config.maxAttempts
    /\ accepted = <<>>
    /\ rejected = 0
    /\ notifs = <<>>

\* ------------------------------------------------------------------------
\* Flush sizes and counters under concurrent flushes (SpecBatch)
\* ------------------------------------------------------------------------
\* C35: between the steps of the processor (no addEvent is inside its
\* synchronous part) the buffer holds fewer than batchSize events; every
\* size-triggered flush took exactly batchSize events, every timer- or
\* shutdown-triggered flush between 1 and batchSize - 1 events, whatever
\* flushes are in flight.
C35_BufferBelowBatchSize ==
  /\ batchSize >= 1
  /\ Len(eventBatch) < batchSize
  /\ \A f \in 1..Len(flushes) :
       IF flushes[f].cause = "size"
         THEN Len(flushes[f].events) = batchSize
         ELSE /\ flushes[f].cause \in {"timer", "shutdown"}
              /\ Len(flushes[f].events) >= 1
              /\ Len(flushes[f].events) <= batchSize - 1

\* a size flush with batchSize events and a timer flush with
\* batchSize - 1 events, in flight at the same time
C35_Witness ==
  /\ \E f, g \in InFlight :
       /\ flushes[f].cause = "size"
       /\ flushes[g].cause = "timer"
       /\ Len(flushes[f].events) = batchSize
       /\ Len(flushes[g].events) = batchSize - 1
  /\ batchSize >= 2

\* the number of events the first n flushes took out of the buffer
RECURSIVE TakenUpTo(_)
TakenUpTo(n) ==
  IF n = 0 THEN 0 ELSE TakenUpTo(n - 1) + Len(flushes[n].events)

\* C36: the monitoring counters stay consistent under concurrent flushes:
\* processedCount equals successCount; batchCount is the number of flushes,
\* each of which took a non-empty batch; and when no flush is in flight,
\* successCount + errorCount is the number of events flushes took out of
\* the buffer (an event without a strategy counts as an error).
C36_CountersConsistent ==
  /\ processedCount = successCount
  /\ batchCount = Len(flushes)
  /\ \A f \in 1..Len(flushes) : flushes[f].events # <<>>
  /\ InFlight = {} => successCount + errorCount = TakenUpTo(Len(flushes))

\* two flushes are over; of the three events they took one was processed,
\* one failed in its strategy and one had no strategy
C36_Witness ==
  /\ Len(flushes) = 2
  /\ InFlight = {}
  /\ TakenUpTo(2) = 3
  /\ successCount = 1
  /\ errorCount = 2
  /\ Len(strategyLog) = 2

\* C37: when shutdown() has returned no strategy invocation is still
\* running, those of flushes started before shutdown was called included.
C37_NoStrategyRunningAfterShutdown ==
  shutdownState = "done" => \A f \in 1..Len(flushes) : flushes[f].pending = {}

\* ------------------------------------------------------------------------
\* Stopping the service (SpecStop)
\* ------------------------------------------------------------------------
StopRejectsInStep == stopPc # "rejected" /\ stopPc' = "rejected"

\* C38: stop() disconnects the broker first and calls
\* BatchProcessor.shutdown only after the disconnect succeeded (every handle
\* the client had is closed); when a close fails stop() rejects with that
\* error, shutdown is not invoked then or later, and the step leaves the
\* buffered events where they are, taken by no flush.
C38_ShutdownOnlyAfterDisconnect ==
  /\ [](/\ shutdownState # "no" =>
             /\ stopPc \in {"disconnected", "resolved"}
             /\ brokerChannel # "open"
             /\ brokerConnection # "open"
             /\ stopError = NoError
        /\ stopPc = "rejected" =>
             /\ stopError \in {ChannelCloseError, ConnectionCloseError}
             /\ shutdownState = "no"
             /\ ~isShuttingDown
             /\ \A f \in 1..Len(flushes) : flushes[f].cause # "shutdown"
        /\ stopPc = "resolved" => shutdownState = "done")
  /\ [][StopRejectsInStep =>
          /\ eventBatch' = eventBatch
          /\ flushes' = flushes
          /\ stopError' = IF stopPc = "closingChannel" THEN ChannelCloseError
                          ELSE ConnectionCloseError]_vars

\* the connection could not be closed after the channel was: stop() has
\* rejected with that error and an event is still in the buffer
C38_Witness ==
  /\ stopPc = "rejected"
  /\ stopError = ConnectionCloseError
  /\ brokerChannel = "closed"
  /\ brokerConnection = "open"
  /\ eventBatch # <<>>
  /\ shutdownState = "no"

\* C39: 'completed' and 'cancelled' are terminal: once the order is in one
\* of them no call of create(), cancel() or complete() changes its status.
C39_TerminalStatesStay ==
  [][(orderStatus \in {"completed", "cancelled"}) =>
       orderStatus' = orderStatus]_vars

====
